---- MODULE Spec2Model ----
(***************************************************************************)
(* Agent orchestration core of LegalBot_AI:                                *)
(*   - app/agent/graph.py   call_model (model fallback invoker),           *)
(*                          should_continue, the agent/tools graph and its *)
(*                          MemorySaver checkpointer;                      *)
(*   - app/api/v1/chat.py   websocket_endpoint (streaming session) and     *)
(*                          chat_endpoint (synchronous endpoint).          *)
(* Text is a sequence of fragments (strings); concatenation of text is     *)
(* concatenation of sequences.  A conversation id of 0 is Python's None.   *)
(***************************************************************************)
EXTENDS Integers, Sequences, FiniteSets, TLC

\* ------------------------------------------------------------------ bounds
\* what the environment does in one behaviour of Spec, counted together: messages
\* and requests of clients, responses of a backend that ask for tools, and failures
\* (of the database, the log file, the graph run, the transport)
MaxInputs == 3

\* the longest query given to legal_assistant, in words
MaxWords == 3

\* ------------------------------------------------------- program constants
ToolCallCeiling == 4   \* graph.py: len(tool_calls) > 4
HistoryLimit    == 20  \* chat.py: .limit(20)

VARIABLES
    \* the environment of one behaviour
    clients,            \* "streaming": one websocket session; "synchronous": POST /chat
    budget,             \* inputs the environment will still give
    toolsCounted,       \* a response that asks for tools is such an input
    \* app/agent/graph.py, module state
    gemini_with_tools,  \* "bound" | "None"
    memory,             \* MemorySaver: thread id -> AgentState
    \* one run of agent_executor
    loopPc,             \* "idle" | "agent" | "tools" | "END"
    runner,             \* the endpoint that drives the run: "ws" | "sync" | "none"
    thread,             \* config["configurable"]["thread_id"] of the run
    cmIndex,            \* call_model: position of the for loop in models_to_try
    attempts,           \* call_model: backends tried so far in this invocation
    last_error,         \* call_model: last_error, while the for loop runs
    cmReturn,           \* call_model: the message of the returned update, NoReturn before
    served,             \* call_model: the backend whose response was returned
    toolRuns,           \* tools executed by tool_node in the current run
    \* app/db/supabase_client.py and the tables behind it
    supabase,           \* FALSE: the client is None
    conversations,      \* conversation id -> owner ("none": no such row)
    db_msgs,            \* conversation id -> rows of table messages, by created_at
    \* websocket_endpoint, one session
    wsPc,
    connected,          \* the transport is up
    active,             \* websocket in manager.active_connections
    closeReason,
    user,
    conversation_id,
    data,
    history_messages,
    full_response,
    tokens_streamed,
    turn,               \* inbound messages received so far
    trace,              \* this turn: events sent and rows written, in order
    produced,           \* this turn: events the run yielded, in order
    created,            \* conversations created by this session
    metas,              \* meta events sent by this session
    droppedInStream,    \* the transport dropped while the run of a turn was in flight
    loopStepsAfterDrop, \* agent/tools nodes of the turn entered after the drop
    \* chat_endpoint
    syncPc,             \* "idle" | "invoke"
    syncCount,          \* requests received so far
    request,            \* ChatRequest
    syncResponse,       \* the HTTP answer to the last request
    \* upload_pdf
    uploadLog,          \* the uploads answered so far: conversation, file, HTTP status
    \* app/agent/legal_tools.py, one call of legal_assistant
    toolPc,             \* "idle" | "done"
    query,              \* the argument: a sequence of words
    toolEnv,            \* what the collaborators of the call did
    toolOut,            \* the text returned and the collaborators called, in order
    \* app/core/resources.py: the singleton `resources` and the threads that use it
    fields,             \* attribute -> None or the instance held
    built,              \* attribute -> constructions that succeeded
    lock,               \* lock -> the thread that holds it, None when free
    api_key,            \* settings.PINECONE_API_KEY is set
    tcall,              \* thread -> the accessor it is in
    tpos,               \* thread -> its position in the accessor
    tclient,            \* thread -> the local `client` of get_index
    tgot,               \* thread -> what its last call came back with
    \* upload_pdf, the requests in flight
    uploads             \* handler -> its position, its file, the context it read

envVars   == <<clients, budget, toolsCounted>>
graphVars == <<gemini_with_tools, memory>>
loopVars  == <<loopPc, runner, thread, cmIndex, attempts, last_error, cmReturn, served,
               toolRuns>>
dbVars    == <<supabase, conversations, db_msgs>>
wsVars    == <<wsPc, connected, active, closeReason, user, conversation_id, data,
               history_messages, full_response, tokens_streamed, turn, trace,
               produced, created, metas, droppedInStream, loopStepsAfterDrop>>
syncVars  == <<syncPc, syncCount, request, syncResponse, uploadLog>>
toolVars  == <<toolPc, query, toolEnv, toolOut>>
resVars   == <<fields, built, lock, api_key, tcall, tpos, tclient, tgot>>
upVars    == <<uploads>>
vars      == <<envVars, graphVars, loopVars, dbVars, wsVars, syncVars, toolVars,
               resVars, upVars>>

\* -------------------------------------------------------------------- data
None == 0
ConvIds   == 1..(2 + MaxInputs)
ThreadIds == ConvIds \cup {None}

Last(s) == s[Len(s)]

\* the text of the n-th utterance a client sends
Utterance(n) == <<"q" \o ToString(n)>>
ConvName(c)  == <<"conv" \o ToString(c)>>

HumanMessage(c)   == [type |-> "human", content |-> c, tool_calls |-> <<>>]
AIMessage(c, tcs) == [type |-> "ai", content |-> c, tool_calls |-> tcs]
\* a variant whose content does not tell which call it answers
UnkeyedToolMessage(t) == [type |-> "tool", content |-> <<"result">>, tool_calls |-> <<>>]
ToolMessage(t)    == [type |-> "tool", content |-> <<"result_" \o t>>, tool_calls |-> <<>>]

\* call_model has not returned
NoReturn == [type |-> "none", content |-> <<>>, tool_calls |-> <<>>]

\* the fixed apology of call_model
Apology == <<"He thong AI hien dang chiu tai cao">>

\* what a backend may answer: free text, tool calls, incremental delivery or not
Contents        == {<<>>, <<"a", "b">>}
RequestedTools  == <<"legal_assistant", "web_search">>
ToolCallChoices == {<<>>, RequestedTools}
Responses ==
    {r \in [content : Contents, tool_calls : ToolCallChoices, streamed : BOOLEAN] :
        /\ r.streamed => r.content # <<>>
        /\ r.tool_calls # <<>> => IF toolsCounted THEN budget > 0 ELSE r.content = <<>>}

FreshState == [messages |-> <<>>, summary |-> <<>>, pdf_context |-> <<>>]

\* a collaborator call: it works, or (while the budget lasts) it fails
Works == IF budget > 0 THEN {TRUE, FALSE} ELSE {TRUE}
Spend(n) == budget' = budget - n

\* ----------------------------------------------------- graph.py: call_model
\* models_to_try, in list order
models_to_try == <<"Llama 3.3 70B", "Llama 3.1 8B", "Gemini 2.5 Flash">>

\* the failure classes the except clause tells apart
ErrorClasses == {"not_found", "rate_limit", "other"}

\* what `await model.ainvoke(...)` can do for the i-th entry: a None handle
\* raises AttributeError, which is an "other" failure
Outcomes(i) ==
    IF models_to_try[i] = "Gemini 2.5 Flash" /\ gemini_with_tools = "None"
    THEN {"other"}
    ELSE {"ok"} \cup ErrorClasses

\* a variant that tries an overloaded backend again instead of moving on
RetryWhenRateLimited(i, err) == IF err = "rate_limit" THEN i ELSE i + 1

\* every branch of the except clause is `continue`: the for loop moves on
AfterFailure(i, err) == i + 1

\* a variant in which the exhausted for loop hands nothing back
NothingReturned == NoReturn

\* the return after the for loop is exhausted
AllFailedReturn == AIMessage(Apology, <<>>)

\* --------------------------------------------------- graph.py: should_continue
CountToolCallBearing(msgs) ==
    Cardinality({i \in 1..Len(msgs) : msgs[i].tool_calls # <<>>})

\* a variant whose ceiling counts the messages of the current turn only: those after
\* the last message of the user
LastHuman(msgs) ==
    LET hs == {i \in 1..Len(msgs) : msgs[i].type = "human"} IN
    IF hs = {} THEN 0 ELSE CHOOSE i \in hs : \A j \in hs : j <= i

should_continue_this_turn(msgs) ==
    IF msgs = <<>> THEN "END"
    ELSE IF CountToolCallBearing(SubSeq(msgs, LastHuman(msgs) + 1, Len(msgs))) > ToolCallCeiling
         THEN "END"
    ELSE IF Last(msgs).tool_calls # <<>> THEN "tools"
    ELSE "END"

\* a variant whose ceiling counts the messages before the latest one only
should_continue_prior(msgs) ==
    IF msgs = <<>> THEN "END"
    ELSE IF CountToolCallBearing(SubSeq(msgs, 1, Len(msgs) - 1)) > ToolCallCeiling THEN "END"
    ELSE IF Last(msgs).tool_calls # <<>> THEN "tools"
    ELSE "END"

\* a variant whose ceiling comes two tool-call-bearing messages later
should_continue_late(msgs) ==
    IF msgs = <<>> THEN "END"
    ELSE IF CountToolCallBearing(msgs) > ToolCallCeiling + 2 THEN "END"
    ELSE IF Last(msgs).tool_calls # <<>> THEN "tools"
    ELSE "END"

should_continue(msgs) ==
    IF msgs = <<>> THEN "END"
    ELSE IF CountToolCallBearing(msgs) > ToolCallCeiling THEN "END"
    ELSE IF Last(msgs).tool_calls # <<>> THEN "tools"
    ELSE "END"

\* a variant of the reducer that keeps the update only
replace_messages(left, right) == right

\* state.py: the add_messages reducer; the messages of an update carry no id of a
\* message already held, so they are appended
add_messages(left, right) == left \o right

\* --------------------------------------------------- events the run yields
ModelStreamEvents(r) ==
    IF r.streamed
    THEN [i \in 1..Len(r.content) |->
             [event |-> "on_chat_model_stream", name |-> "", content |-> <<r.content[i]>>,
              tool_call_chunks |-> FALSE]]
         \o (IF r.tool_calls # <<>>
             THEN <<[event |-> "on_chat_model_stream", name |-> "", content |-> <<>>,
                     tool_call_chunks |-> TRUE]>>
             ELSE <<>>)
    ELSE <<>>

\* a variant in which the run tells the end of a tool only, which the endpoint
\* does not forward
ToolEndEvents(tcs) ==
    [i \in 1..Len(tcs) |->
        [event |-> "on_tool_end", name |-> tcs[i], content |-> <<>>,
         tool_call_chunks |-> FALSE]]

ToolEvents(tcs) ==
    [i \in 1..Len(tcs) |->
        [event |-> "on_tool_start", name |-> tcs[i], content |-> <<>>,
         tool_call_chunks |-> FALSE]]

\* ------------------------------------------- chat.py: the outward events
\* ConnectionManager.send_personal_message: the event is handed to the transport;
\* WebSocketDisconnect and RuntimeError of a closed transport are swallowed, so the
\* caller goes on either way
SendEvent(tr, type, content) ==
    Append(tr, [k |-> "send", type |-> type, content |-> content, ok |-> TRUE])

\* a row operation on the database, and whether it went through
DbWrite(tr, op, ok) ==
    Append(tr, [k |-> "db", type |-> op, content |-> <<>>, ok |-> ok])

\* the run raised into the endpoint
Raised(tr) ==
    Append(tr, [k |-> "raise", type |-> "graph_err", content |-> <<>>, ok |-> FALSE])

\* the body of `async for event in agent_executor.astream_events(...)`
RECURSIVE WsHandleEvents(_, _)
WsHandleEvents(evs, st) ==
    IF evs = <<>> THEN st
    ELSE LET e == Head(evs)
             st2 ==
               IF e.event = "on_tool_start"
               THEN [st EXCEPT !.trace = SendEvent(@, "status", <<"Running tool: " \o e.name>>)]
               ELSE IF e.event = "on_chat_model_stream"
                       /\ ~e.tool_call_chunks /\ e.content # <<>>
               THEN [st EXCEPT !.full_response = @ \o e.content,
                               !.tokens_streamed = @ + 1,
                               !.trace = SendEvent(@, "token", e.content)]
               ELSE st
         IN WsHandleEvents(Tail(evs), st2)

\* the endpoint that drives the run consumes the events as they are yielded
Consume(evs) ==
    IF runner = "ws"
    THEN LET st == WsHandleEvents(evs, [trace |-> trace, full_response |-> full_response,
                                        tokens_streamed |-> tokens_streamed])
         IN /\ trace' = st.trace
            /\ full_response' = st.full_response
            /\ tokens_streamed' = st.tokens_streamed
            /\ produced' = produced \o evs
            /\ loopStepsAfterDrop' =
                  IF ~connected /\ (loopPc = "tools" \/ attempts = <<>>)
                  THEN loopStepsAfterDrop + 1 ELSE loopStepsAfterDrop
            /\ UNCHANGED <<wsPc, connected, active, closeReason, user, conversation_id,
                           data, history_messages, turn, created, metas, droppedInStream>>
    ELSE UNCHANGED wsVars

\* ------------------------------------------------------------------- Init
InitMsgs == <<[role |-> "user", content |-> <<"q0">>],
              [role |-> "assistant", content |-> <<"a0">>]>>

NoRequest  == [message |-> <<>>, conversation_id |-> None]
NoResponse == [status |-> 0, response |-> <<>>, conversation_id |-> None, saved |-> "none"]

\* the process after start-up: the checkpointer (in memory only) is empty, no
\* session is open, no request has come
InitProcess ==
    /\ gemini_with_tools \in {"bound", "None"}
    /\ memory = [t \in ThreadIds |-> FreshState]
    /\ loopPc = "idle" /\ runner = "none" /\ thread = None
    /\ cmIndex = 1 /\ attempts = <<>> /\ last_error = "None"
    /\ cmReturn = NoReturn /\ served = "none" /\ toolRuns = <<>>
    /\ supabase \in BOOLEAN
    /\ conversations = [c \in ConvIds |->
                           IF c = 1 THEN "alice" ELSE IF c = 2 THEN "bob" ELSE "none"]
    /\ wsPc = "init" /\ connected = TRUE /\ active = FALSE /\ closeReason = "none"
    /\ user = "none" /\ conversation_id = None /\ data = <<>>
    /\ history_messages = <<>> /\ full_response = <<>> /\ tokens_streamed = 0
    /\ turn = 0 /\ trace = <<>> /\ produced = <<>> /\ created = 0 /\ metas = 0
    /\ droppedInStream = FALSE /\ loopStepsAfterDrop = 0
    /\ syncPc = "idle" /\ syncCount = 0 /\ request = NoRequest
    /\ syncResponse = NoResponse
    /\ uploadLog = <<>>

\* the program after start-up: two conversations are on record, of one exchange each
InitProgram ==
    /\ InitProcess
    /\ db_msgs = [c \in ConvIds |-> IF c \in {1, 2} THEN InitMsgs ELSE <<>>]

\* no call of legal_assistant is looked at
NoEnv  == [optimizer |-> "none", embeddings |-> "ok", index |-> "connected",
           search |-> "matches"]
\* no text was handed to embed_query
NotSearched == <<"(not searched)">>
NoOut  == [text |-> <<>>, calls |-> <<>>, search_query |-> NotSearched]
NoTool == toolPc = "idle" /\ query = <<>> /\ toolEnv = NoEnv /\ toolOut = NoOut

\* ------------------------------------------------- app/core/resources.py
\* the threads that reach `resources`: the pre_load thread of lifespan and the
\* workers that run the tools and the PDF processor
MaxThreads == 2
Threads    == 1..MaxThreads

Attributes == {"_embeddings", "_pinecone_client", "_pinecone_index", "_fast_llm"}
Locks      == {"_emb_lock", "_pc_lock", "_idx_lock", "_llm_lock"}
\* the accessors the program calls; `pc` is read inside get_index only
Accessors  == {"embeddings", "get_index", "fast_llm"}

AttrOf(call) == IF call = "embeddings" THEN "_embeddings"
                ELSE IF call = "get_index" THEN "_pinecone_index"
                ELSE "_fast_llm"

\* every attribute under one lock
OneLock(attr) == "_emb_lock"

\* `with self._emb_lock`, `with self._pc_lock`, `with self._idx_lock`, `with self._llm_lock`
LockOf(attr) == IF attr = "_embeddings" THEN "_emb_lock"
                ELSE IF attr = "_pinecone_client" THEN "_pc_lock"
                ELSE IF attr = "_pinecone_index" THEN "_idx_lock"
                ELSE "_llm_lock"

\* the check under the lock left out
NoSecondCheck(value) == FALSE

\* `if self._x is not None: return self._x`, under the lock
SecondCheck(value) == value # None

NoResult    == [state |-> "pending", attr |-> "none", value |-> None]
CallReturned(attr, value) == [state |-> "returned", attr |-> attr, value |-> value]
CallRaised(attr)          == [state |-> "raised", attr |-> attr, value |-> None]

\* Resources.__init__, and no thread inside an accessor
FreshResources ==
    /\ fields = [a \in Attributes |-> None]
    /\ built = [a \in Attributes |-> 0]
    /\ lock = [l \in Locks |-> None]
    /\ tcall = [t \in Threads |-> "none"]
    /\ tpos = [t \in Threads |-> "idle"]
    /\ tclient = [t \in Threads |-> None]
    /\ tgot = [t \in Threads |-> NoResult]

\* the specifications that leave `resources` alone
NoResourceUse == FreshResources /\ api_key = TRUE

\* the instance a construction makes: the n-th object of its class
NewInstance(attr) == built[attr] + 1

Release(held, lockNames) == [l \in Locks |-> IF l \in lockNames THEN None ELSE held[l]]

\* the upload requests the server works on at a time
Handlers == {1, 2}
NoUpload == [pc |-> "idle", conversation_id |-> None, filename |-> "", silent |-> FALSE,
             existing_pdf_context |-> <<>>]
NoUploadInFlight == uploads = [h \in Handlers |-> NoUpload]

Init ==
    /\ InitProgram
    /\ NoTool /\ NoResourceUse /\ NoUploadInFlight
    /\ clients \in {"streaming", "synchronous"}
    /\ budget = MaxInputs
    /\ toolsCounted = TRUE

\* ------------------------------------------- the run of agent_executor
\* one iteration of the for loop of call_model
CallModelAttempt ==
    /\ loopPc = "agent" /\ cmReturn = NoReturn
    /\ cmIndex <= Len(models_to_try)
    /\ attempts' = Append(attempts, models_to_try[cmIndex])
    /\ \E outcome \in Outcomes(cmIndex) :
         IF outcome = "ok"
         THEN \E r \in Responses :
                /\ cmReturn' = AIMessage(r.content, r.tool_calls)
                /\ served' = models_to_try[cmIndex]
                /\ Spend(IF r.tool_calls # <<>> /\ toolsCounted THEN 1 ELSE 0)
                /\ last_error' = "None"
                /\ UNCHANGED cmIndex
                /\ Consume(ModelStreamEvents(r))
         ELSE /\ cmIndex' = AfterFailure(cmIndex, outcome)
              /\ IF cmIndex' > Len(models_to_try)
                 THEN /\ cmReturn' = AllFailedReturn /\ served' = "apology"
                      /\ last_error' = "None"
                 ELSE /\ last_error' = outcome
                      /\ UNCHANGED <<cmReturn, served>>
              /\ UNCHANGED budget
              /\ Consume(<<>>)
    /\ UNCHANGED <<clients, toolsCounted, graphVars, loopPc, runner, thread, toolRuns, dbVars,
                   syncVars, toolVars, resVars, upVars>>

\* the agent node ends: the update is merged into the checkpointed state and the
\* conditional edge should_continue picks the next node
AgentNodeDone ==
    /\ loopPc = "agent" /\ cmReturn # NoReturn
    /\ LET msgs == add_messages(memory[thread].messages, <<cmReturn>>) IN
       /\ memory' = [memory EXCEPT ![thread].messages = msgs]
       /\ loopPc' = should_continue(msgs)
    /\ cmReturn' = NoReturn /\ cmIndex' = 1 /\ attempts' = <<>>
    /\ last_error' = "None" /\ served' = "none"
    /\ UNCHANGED <<envVars, gemini_with_tools, runner, thread, toolRuns, dbVars, wsVars,
                   syncVars, toolVars, resVars, upVars>>

\* tool_node: every tool call of the last message is run and answered by one
\* ToolMessage; then the edge tools -> agent
ToolNodeRun ==
    /\ loopPc = "tools"
    /\ LET tcs == Last(memory[thread].messages).tool_calls IN
       /\ memory' = [memory EXCEPT ![thread].messages =
                        add_messages(@, [i \in 1..Len(tcs) |-> ToolMessage(tcs[i])])]
       /\ toolRuns' = toolRuns \o tcs
       /\ Consume(ToolEvents(tcs))
    /\ loopPc' = "agent"
    /\ UNCHANGED <<envVars, gemini_with_tools, runner, thread, cmIndex, attempts,
                   last_error, cmReturn, served, dbVars, syncVars, toolVars, resVars, upVars>>

\* ------------------------------------------------ chat.py: the database
\* .order("created_at", desc=False).limit(20): the first rows in insertion order
FetchHistory(c) ==
    SubSeq(db_msgs[c], 1, IF Len(db_msgs[c]) < HistoryLimit THEN Len(db_msgs[c]) ELSE HistoryLimit)

FreeIds == {c \in ConvIds : conversations[c] = "none"}
NewId   == CHOOSE c \in FreeIds : \A d \in FreeIds : c <= d

\* the (role, content) tuples handed to the graph become messages
ToMessages(h) ==
    [i \in 1..Len(h) |->
        IF h[i].role = "user" THEN HumanMessage(h[i].content)
        ELSE AIMessage(h[i].content, <<>>)]

\* agent_executor is entered with {"messages": history} under thread_id tid: the
\* input is merged into the state checkpointed for tid
StartRun(who, tid, h) ==
    /\ memory' = [memory EXCEPT ![tid].messages = add_messages(@, ToMessages(h))]
    /\ loopPc' = "agent" /\ runner' = who /\ thread' = tid
    /\ cmIndex' = 1 /\ attempts' = <<>> /\ last_error' = "None"
    /\ cmReturn' = NoReturn /\ served' = "none" /\ toolRuns' = <<>>
    /\ UNCHANGED gemini_with_tools

\* the run is left: finished, or abandoned by the exception it raised
EndRun ==
    /\ loopPc' = "idle" /\ runner' = "none"
    /\ cmIndex' = 1 /\ attempts' = <<>> /\ last_error' = "None"
    /\ cmReturn' = NoReturn /\ served' = "none"
    /\ UNCHANGED <<thread, toolRuns>>

\* ------------------------------------------ chat.py: websocket_endpoint
\* variants of the handler of graph_err: without its `continue` it falls through to
\* the end signal; with a `return` it leaves the session
GraphErrorFallsThrough == "end"
GraphErrorEndsSession  == "closed"

\* except Exception as graph_err: ... `continue`: back to the top of the while loop
GraphErrorNext == "recv"

\* a variant that does not keep the identity of the conversation it created
ForgottenId(new) == None

\* conversation_id = res.data[0]["id"]: the session keeps the new identity
RememberedId(new) == new

\* a variant without the except clauses: a failed database call leaves the while
\* loop
PropagateDbError(ok, nextPc) == IF ok THEN nextPc ELSE "closed"

\* the except clauses around the database calls only print: failed or not, the
\* handler goes on to the statement after the try
AfterDbCall(ok, nextPc) == nextPc

\* a variant without the fallback
NeverFallback(n, text) == FALSE

\* `if tokens_streamed == 0 and not full_response`
NothingStreamed(n, text) == n = 0 /\ text = <<>>

\* accept, then authenticate the token; without a user: error, close, return
WsAuthenticate ==
    /\ clients = "streaming" /\ wsPc = "init"
    /\ \E token \in {"valid", "invalid", "missing"}, cid \in {None, 1, 2} :
         /\ conversation_id' = cid
         /\ IF token = "valid"
            THEN /\ user' = "alice" /\ wsPc' = "owner" /\ active' = TRUE
                 /\ UNCHANGED <<trace, closeReason>>
            ELSE /\ user' = "none"
                 /\ trace' = SendEvent(trace, "error", <<"Unauthorized">>)
                 /\ wsPc' = "closed" /\ closeReason' = "unauthorized" /\ active' = FALSE
    /\ UNCHANGED <<envVars, graphVars, loopVars, dbVars, connected, data,
                   history_messages, full_response, tokens_streamed, turn, produced,
                   created, metas, droppedInStream, loopStepsAfterDrop, syncVars, toolVars, resVars, upVars>>

\* a variant of WsVerifyOwnership that takes the conversation id on trust
WsTrustOwnership ==
    /\ wsPc = "owner"
    /\ wsPc' = "recv"
    /\ UNCHANGED <<envVars, graphVars, loopVars, dbVars, connected, active, closeReason,
                   user, conversation_id, data, history_messages, full_response,
                   tokens_streamed, turn, trace, produced, created, metas,
                   droppedInStream, loopStepsAfterDrop, syncVars, toolVars, resVars, upVars>>

\* the ownership check of a conversation id given with the connection; an
\* exception here (supabase is None, or the query fails) reaches the outer handler
WsVerifyOwnership ==
    /\ wsPc = "owner"
    /\ IF conversation_id = None
       THEN wsPc' = "recv" /\ UNCHANGED <<trace, closeReason, active, budget>>
       ELSE IF ~supabase
       THEN /\ wsPc' = "closed" /\ closeReason' = "owner_check_failed" /\ active' = FALSE
            /\ UNCHANGED <<trace, budget>>
       ELSE \E ok \in Works :
              IF ~ok
              THEN /\ wsPc' = "closed" /\ closeReason' = "owner_check_failed"
                   /\ active' = FALSE
                   /\ Spend(1) /\ UNCHANGED trace
              ELSE IF conversations[conversation_id] # user
              THEN /\ trace' = SendEvent(trace, "error", <<"Access denied to conversation">>)
                   /\ wsPc' = "closed" /\ closeReason' = "access_denied" /\ active' = FALSE
                   /\ UNCHANGED budget
              ELSE wsPc' = "recv" /\ UNCHANGED <<trace, closeReason, active, budget>>
    /\ UNCHANGED <<clients, toolsCounted, graphVars, loopVars, dbVars, connected, user,
                   conversation_id, data, history_messages, full_response,
                   tokens_streamed, turn, produced, created, metas, droppedInStream,
                   loopStepsAfterDrop, syncVars, toolVars, resVars, upVars>>

\* top of the while loop: receive_text; a dropped transport raises
\* WebSocketDisconnect, which ends the session
WsReceive ==
    /\ wsPc = "recv"
    /\ IF ~connected
       THEN /\ wsPc' = "closed" /\ closeReason' = "disconnect" /\ active' = FALSE
            /\ UNCHANGED <<data, turn, trace, produced, history_messages, budget>>
       ELSE /\ budget > 0 /\ Spend(1)
            /\ turn' = turn + 1
            /\ data' = Utterance(turn + 1)
            /\ trace' = <<>> /\ produced' = <<>> /\ history_messages' = <<>>
            /\ wsPc' = "history"
            /\ UNCHANGED <<closeReason, active>>
    /\ UNCHANGED <<clients, toolsCounted, graphVars, loopVars, dbVars, connected, user,
                   conversation_id, full_response, tokens_streamed, created, metas,
                   droppedInStream, loopStepsAfterDrop, syncVars, toolVars, resVars, upVars>>

\* the history of the conversation, then the new user message
WsLoadHistory ==
    /\ wsPc = "history"
    /\ IF conversation_id # None /\ supabase
       THEN \E ok \in Works :
              /\ history_messages' =
                    Append(IF ok THEN FetchHistory(conversation_id) ELSE <<>>,
                           [role |-> "user", content |-> data])
              /\ trace' = DbWrite(trace, "load_history", ok)
              /\ Spend(IF ok THEN 0 ELSE 1)
              /\ wsPc' = AfterDbCall(ok, "create")
       ELSE /\ history_messages' = <<[role |-> "user", content |-> data]>>
            /\ wsPc' = "create"
            /\ UNCHANGED <<trace, budget>>
    /\ UNCHANGED <<clients, toolsCounted, graphVars, loopVars, dbVars, connected, active,
                   closeReason, user, conversation_id, data, full_response,
                   tokens_streamed, turn, produced, created, metas, droppedInStream,
                   loopStepsAfterDrop, syncVars, toolVars, resVars, upVars>>

\* no conversation identity yet: insert a conversation and tell the client its id
WsCreateConversation ==
    /\ wsPc = "create"
    /\ IF conversation_id = None /\ supabase
       THEN \E res \in {"row"} \cup (IF budget > 0 THEN {"empty", "exception"} ELSE {}) :
              IF res = "row"
              THEN /\ conversations' = [conversations EXCEPT ![NewId] = user]
                   /\ conversation_id' = RememberedId(NewId)
                   /\ trace' = SendEvent(DbWrite(trace, "create", TRUE), "meta", ConvName(NewId))
                   /\ created' = created + 1 /\ metas' = metas + 1
                   /\ wsPc' = AfterDbCall(TRUE, "saveUser")
                   /\ UNCHANGED budget
              ELSE /\ trace' = DbWrite(trace, "create", FALSE)
                   /\ Spend(1)
                   /\ wsPc' = AfterDbCall(res # "exception", "saveUser")
                   /\ UNCHANGED <<conversations, conversation_id, created, metas>>
       ELSE /\ wsPc' = "saveUser"
            /\ UNCHANGED <<conversations, conversation_id, trace, created, metas, budget>>
    /\ UNCHANGED <<clients, toolsCounted, graphVars, loopVars, supabase, db_msgs, connected,
                   active, closeReason, user, data, history_messages, full_response,
                   tokens_streamed, turn, produced, droppedInStream, loopStepsAfterDrop,
                   syncVars, toolVars, resVars, upVars>>

\* the user message is inserted before the graph is started
WsSaveUserMessage ==
    /\ wsPc = "saveUser"
    /\ IF conversation_id # None /\ supabase
       THEN \E ok \in Works :
              /\ db_msgs' = IF ok
                            THEN [db_msgs EXCEPT ![conversation_id] =
                                     Append(@, [role |-> "user", content |-> data])]
                            ELSE db_msgs
              /\ trace' = DbWrite(trace, "save_user", ok)
              /\ Spend(IF ok THEN 0 ELSE 1)
              /\ wsPc' = AfterDbCall(ok, "start")
       ELSE /\ wsPc' = "start"
            /\ UNCHANGED <<db_msgs, trace, budget>>
    /\ UNCHANGED <<clients, toolsCounted, graphVars, loopVars, supabase, conversations,
                   connected, active, closeReason, user, conversation_id, data,
                   history_messages, full_response, tokens_streamed, turn, produced,
                   created, metas, droppedInStream, loopStepsAfterDrop, syncVars, toolVars, resVars, upVars>>

\* start is sent, the accumulators are reset, astream_events is entered
WsStartStream ==
    /\ wsPc = "start" /\ loopPc = "idle"
    /\ trace' = SendEvent(trace, "start", <<>>)
    /\ full_response' = <<>> /\ tokens_streamed' = 0
    /\ StartRun("ws", conversation_id, history_messages)
    /\ wsPc' = "stream"
    /\ UNCHANGED <<envVars, dbVars, connected, active, closeReason, user,
                   conversation_id, data, history_messages, turn, produced, created,
                   metas, droppedInStream, loopStepsAfterDrop, syncVars, toolVars, resVars, upVars>>

\* the run raises: except Exception as graph_err sends one error event
WsGraphError ==
    /\ wsPc = "stream" /\ runner = "ws" /\ loopPc \in {"agent", "tools"}
    /\ budget > 0 /\ Spend(1)
    /\ trace' = SendEvent(Raised(trace), "error", <<"Loi he thong AI">>)
    /\ wsPc' = GraphErrorNext
    /\ EndRun
    /\ UNCHANGED <<clients, toolsCounted, graphVars, dbVars, connected, active, closeReason,
                   user, conversation_id, data, history_messages, full_response,
                   tokens_streamed, turn, produced, created, metas, droppedInStream,
                   loopStepsAfterDrop, syncVars, toolVars, resVars, upVars>>

\* the run is over; nothing was streamed: read the final state and send its last
\* message as one token
WsNoStreamFallback ==
    /\ wsPc = "stream" /\ runner = "ws" /\ loopPc = "END"
    /\ LET msgs == memory[thread].messages IN
       IF NothingStreamed(tokens_streamed, full_response)
          /\ msgs # <<>> /\ Last(msgs).content # <<>>
       THEN /\ full_response' = Last(msgs).content
            /\ trace' = SendEvent(trace, "token", Last(msgs).content)
       ELSE UNCHANGED <<full_response, trace>>
    /\ wsPc' = "end"
    /\ EndRun
    /\ UNCHANGED <<envVars, graphVars, dbVars, connected, active, closeReason, user,
                   conversation_id, data, history_messages, tokens_streamed, turn,
                   produced, created, metas, droppedInStream, loopStepsAfterDrop,
                   syncVars, toolVars, resVars, upVars>>

\* a variant of WsSendEnd that goes on to save the assistant message without having
\* sent the end signal
WsSkipEnd ==
    /\ wsPc = "end"
    /\ wsPc' = "saveAssistant"
    /\ UNCHANGED <<envVars, graphVars, loopVars, dbVars, connected, active, closeReason,
                   user, conversation_id, data, history_messages, full_response,
                   tokens_streamed, turn, trace, produced, created, metas,
                   droppedInStream, loopStepsAfterDrop, syncVars, toolVars, resVars, upVars>>

\* log_to_file (it may raise: the outer handler then ends the session), then end
WsSendEnd ==
    /\ wsPc = "end"
    /\ \E logged \in Works :
         IF logged
         THEN /\ trace' = SendEvent(trace, "end", full_response)
              /\ wsPc' = "saveAssistant"
              /\ UNCHANGED <<closeReason, active, budget>>
         ELSE /\ wsPc' = "closed" /\ closeReason' = "log_failed" /\ active' = FALSE
              /\ Spend(1) /\ UNCHANGED trace
    /\ UNCHANGED <<clients, toolsCounted, graphVars, loopVars, dbVars, connected, user,
                   conversation_id, data, history_messages, full_response,
                   tokens_streamed, turn, produced, created, metas, droppedInStream,
                   loopStepsAfterDrop, syncVars, toolVars, resVars, upVars>>

\* the assistant message is inserted and the timestamp advanced, in one try
WsSaveAssistant ==
    /\ wsPc = "saveAssistant"
    /\ IF conversation_id # None /\ supabase
       THEN \E res \in {"ok"} \cup (IF budget > 0 THEN {"insert_fails", "update_fails"}
                                    ELSE {}) :
              /\ db_msgs' = IF res = "insert_fails" THEN db_msgs
                            ELSE [db_msgs EXCEPT ![conversation_id] =
                                     Append(@, [role |-> "assistant", content |-> full_response])]
              /\ trace' = IF res = "insert_fails" THEN DbWrite(trace, "save_assistant", FALSE)
                          ELSE DbWrite(DbWrite(trace, "save_assistant", TRUE),
                                       "update_timestamp", res = "ok")
              /\ Spend(IF res = "ok" THEN 0 ELSE 1)
              /\ wsPc' = AfterDbCall(res = "ok", "recv")
       ELSE /\ wsPc' = "recv"
            /\ UNCHANGED <<db_msgs, trace, budget>>
    /\ UNCHANGED <<clients, toolsCounted, graphVars, loopVars, supabase, conversations,
                   connected, active, closeReason, user, conversation_id, data,
                   history_messages, full_response, tokens_streamed, turn, produced,
                   created, metas, droppedInStream, loopStepsAfterDrop, syncVars, toolVars, resVars, upVars>>

\* the client goes away
ClientDrop ==
    /\ connected /\ wsPc \notin {"init", "owner", "closed"}
    /\ budget > 0 /\ Spend(1)
    /\ connected' = FALSE
    /\ droppedInStream' = (wsPc = "stream")
    /\ UNCHANGED <<clients, toolsCounted, graphVars, loopVars, dbVars, wsPc, active, closeReason, user,
                   conversation_id, data, history_messages, full_response,
                   tokens_streamed, turn, trace, produced, created, metas,
                   loopStepsAfterDrop, syncVars, toolVars, resVars, upVars>>

\* ------------------------------------------------ chat.py: chat_endpoint
\* _get_text_content: a str is returned as it is
get_text_content(content) == content

\* `except Exception as db_error` around the ownership check and the history query:
\* whatever was raised inside (the HTTPException of the check included) is printed
\* and the history stays empty
SyncHistory(cid, ok) ==
    IF cid # None /\ supabase /\ ok /\ conversations[cid] = "alice"
    THEN FetchHistory(cid) ELSE <<>>

\* the request is read, the history loaded, the graph invoked
SyncRequest ==
    /\ clients = "synchronous" /\ syncPc = "idle" /\ loopPc = "idle"
    /\ budget > 0
    /\ syncCount' = syncCount + 1
    /\ \E cid \in {None, 1, 2}, ok \in (IF budget > 1 THEN {TRUE, FALSE} ELSE {TRUE}) :
         /\ ~ok => (cid # None /\ supabase)
         /\ request' = [message |-> Utterance(syncCount + 1), conversation_id |-> cid]
         /\ Spend(IF ok THEN 1 ELSE 2)
         /\ StartRun("sync", cid,
                     Append(SyncHistory(cid, ok),
                            [role |-> "user", content |-> Utterance(syncCount + 1)]))
    /\ syncPc' = "invoke"
    /\ syncResponse' = NoResponse
    /\ UNCHANGED <<clients, toolsCounted, dbVars, wsVars, uploadLog, toolVars, resVars, upVars>>

\* the run raises: the outer handler answers 500
SyncGraphError ==
    /\ syncPc = "invoke" /\ runner = "sync" /\ loopPc \in {"agent", "tools"}
    /\ budget > 0 /\ Spend(1)
    /\ syncResponse' = [status |-> 500, response |-> <<>>,
                        conversation_id |-> request.conversation_id, saved |-> "none"]
    /\ syncPc' = "idle"
    /\ EndRun
    /\ UNCHANGED <<clients, toolsCounted, graphVars, dbVars, wsVars, syncCount, request,
                   uploadLog, toolVars, resVars, upVars>>

\* what the save block of chat_endpoint can meet
SaveResults(cid) ==
    IF ~supabase THEN {"skipped"}
    ELSE {"ok"}
         \cup (IF budget > 0
               THEN {"insert_fails", "update_fails"}
                    \cup (IF cid = None THEN {"create_empty", "create_fails"} ELSE {})
               ELSE {})

\* the run is over: the answer is the content of the last message; both messages
\* are saved (a failure is printed and swallowed), the answer is returned
SyncRespond ==
    /\ syncPc = "invoke" /\ runner = "sync" /\ loopPc = "END"
    /\ LET cid == request.conversation_id
           assistant_response == get_text_content(Last(memory[thread].messages).content)
       IN \E res \in SaveResults(cid), logged \in BOOLEAN :
            LET cost   == (IF res \in {"ok", "skipped"} THEN 0 ELSE 1)
                          + (IF logged THEN 0 ELSE 1)
                made   == cid = None /\ res \in {"ok", "insert_fails", "update_fails"}
                id     == IF made THEN NewId ELSE cid
                stored == id # None /\ res \in {"ok", "update_fails"}
            IN /\ cost <= budget
               /\ Spend(cost)
               /\ conversations' = IF made THEN [conversations EXCEPT ![NewId] = "alice"]
                                   ELSE conversations
               /\ db_msgs' = IF stored
                             THEN [db_msgs EXCEPT ![id] = @ \o
                                      <<[role |-> "user", content |-> request.message],
                                        [role |-> "assistant", content |-> assistant_response]>>]
                             ELSE db_msgs
               /\ syncResponse' =
                     IF logged
                     THEN [status |-> 200, response |-> assistant_response,
                           conversation_id |-> id,
                           saved |-> IF res = "skipped" THEN "skipped"
                                     ELSE IF res = "ok" THEN "ok" ELSE "failed"]
                     ELSE [status |-> 500, response |-> <<>>, conversation_id |-> id,
                           saved |-> "none"]
    /\ syncPc' = "idle"
    /\ EndRun
    /\ UNCHANGED <<clients, toolsCounted, graphVars, supabase, wsVars, syncCount, request,
                   uploadLog, toolVars, resVars, upVars>>

\* ------------------------------------------------- chat.py: upload_pdf
\* the files a client uploads, and the text PdfReader extracts from each
Files == {"a.pdf", "b.pdf"}
ExtractedText(f) == "text of " \o f

\* a variant that keeps the text of the latest document only
ReplacedContext(existing, f) ==
    <<"--- DOCUMENT: " \o f \o " ---", ExtractedText(f)>>

\* updated_context = existing_pdf_context + f"\n\n--- DOCUMENT: {file.filename} ---\n{text}"
UpdatedContext(existing, f) ==
    existing \o <<"--- DOCUMENT: " \o f \o " ---", ExtractedText(f)>>

\* the confirmation message stored with the conversation
PdfAttachment(f) == <<"[PDF_ATTACHMENT]", f, ExtractedText(f)>>

\* POST /chat/upload/{conversation_id}: ownership check (403; without a database
\* client the check itself raises: 500), the text of the PDF (400 when it cannot be
\* read or holds no text), the update of the checkpointed pdf_context (aget_state
\* and aupdate_state of the MemorySaver, a dictionary of the process), and, unless
\* silent, the confirmation message (500 when its insert fails, the context being
\* updated already)
UploadPdf ==
    /\ clients = "synchronous" /\ syncPc = "idle" /\ loopPc = "idle"
    /\ budget > 0 /\ Spend(1)
    /\ \E cid \in {1, 2}, f \in Files, readable \in BOOLEAN, silent \in BOOLEAN,
          saved \in BOOLEAN :
         LET owned   == supabase /\ conversations[cid] = "alice"
             updated == owned /\ readable
             status  == IF ~supabase THEN 500
                        ELSE IF ~owned THEN 403
                        ELSE IF ~readable THEN 400
                        ELSE IF ~silent /\ ~saved THEN 500
                        ELSE 200
         IN /\ silent => saved
            /\ ~owned => readable
            /\ ~updated => silent
            /\ memory' = IF updated
                         THEN [memory EXCEPT ![cid].pdf_context = UpdatedContext(@, f)]
                         ELSE memory
            /\ db_msgs' = IF status = 200 /\ ~silent
                          THEN [db_msgs EXCEPT ![cid] =
                                   Append(@, [role |-> "assistant",
                                              content |-> PdfAttachment(f)])]
                          ELSE db_msgs
            /\ uploadLog' = Append(uploadLog, [conversation_id |-> cid, filename |-> f,
                                               status |-> status])
    /\ UNCHANGED <<clients, toolsCounted, gemini_with_tools, loopVars, supabase,
                   conversations, wsVars, syncPc, syncCount, request, syncResponse,
                   toolVars, resVars, upVars>>

Next ==
    \/ CallModelAttempt
    \/ AgentNodeDone
    \/ ToolNodeRun
    \/ WsAuthenticate
    \/ WsVerifyOwnership
    \/ WsReceive
    \/ WsLoadHistory
    \/ WsCreateConversation
    \/ WsSaveUserMessage
    \/ WsStartStream
    \/ WsGraphError
    \/ WsNoStreamFallback
    \/ WsSendEnd
    \/ WsSaveAssistant
    \/ ClientDrop
    \/ SyncRequest
    \/ SyncGraphError
    \/ SyncRespond
    \/ UploadPdf

Spec == Init /\ [][Next]_vars

\* the graph alone, driven through the synchronous endpoint without a database;
\* the backends may answer with bare tool requests as often as they like
InitGraph ==
    /\ InitProgram
    /\ NoTool /\ NoResourceUse /\ NoUploadInFlight
    /\ clients = "synchronous"
    /\ supabase = FALSE
    /\ budget = MaxInputs - 1
    /\ toolsCounted = FALSE

NextGraph ==
    \/ CallModelAttempt
    \/ AgentNodeDone
    \/ ToolNodeRun
    \/ SyncRequest
    \/ SyncGraphError
    \/ SyncRespond

SpecGraph == InitGraph /\ [][NextGraph]_vars

\* one request to the graph, in which nothing outside the backends fails: every
\* awaited call of a backend or of a tool comes back (with an answer or an
\* exception), so a node that can run does run
InitLoop ==
    /\ InitProgram
    /\ NoTool /\ NoResourceUse /\ NoUploadInFlight
    /\ clients = "synchronous"
    /\ supabase = FALSE
    /\ budget = MaxInputs - 2
    /\ toolsCounted = FALSE

NextLoop ==
    \/ CallModelAttempt
    \/ AgentNodeDone
    \/ ToolNodeRun
    \/ SyncRequest
    \/ SyncRespond

SpecLoop ==
    /\ InitLoop /\ [][NextLoop]_vars
    /\ WF_vars(CallModelAttempt \/ AgentNodeDone \/ ToolNodeRun)

\* the way of a request into the graph, in either endpoint, when the conversation
\* of alice is already long: n rows, the i-th holding "m<i>"
Rows(n) ==
    [i \in 1..n |-> [role |-> IF i % 2 = 1 THEN "user" ELSE "assistant",
                     content |-> <<"m" \o ToString(i)>>]]

InitHistory ==
    /\ InitProcess
    /\ NoTool /\ NoResourceUse /\ NoUploadInFlight
    /\ \E n \in 0..(HistoryLimit + MaxInputs) :
          db_msgs = [c \in ConvIds |-> IF c = 1 THEN Rows(n)
                                       ELSE IF c = 2 THEN InitMsgs ELSE <<>>]
    /\ clients \in {"streaming", "synchronous"}
    /\ budget = MaxInputs - 2
    /\ toolsCounted = FALSE

NextHistory ==
    \/ WsAuthenticate
    \/ WsVerifyOwnership
    \/ WsReceive
    \/ WsLoadHistory
    \/ WsCreateConversation
    \/ WsSaveUserMessage
    \/ WsStartStream
    \/ SyncRequest

SpecHistory == InitHistory /\ [][NextHistory]_vars

\* ------------------------------------------ legal_tools.py: legal_assistant
\* A query is a sequence of words; the Vietnamese words are written without
\* their diacritics.  `kw in query_lower` holds when the words of kw occur one
\* after the other in the query.
Words == {"ket", "hon", "KET", "gplx", "giao", "thong"}
Queries == UNION {[1..n -> Words] : n \in 0..MaxWords}

\* str.lower, word by word
LowerWord(w) == IF w = "KET" THEN "ket" ELSE w
Lower(q) == [i \in 1..Len(q) |-> LowerWord(q[i])]

\* query_lower = query.lower().strip()
Normalize(q) == Lower(q)

Contains(q, kw) ==
    \E i \in 1..(Len(q) - Len(kw) + 1) : SubSeq(q, i, i + Len(kw) - 1) = kw

\* key_map, in its order: topic, aliases
key_map ==
    << [key |-> "giay phep lai xe",
        keywords |-> << <<"giay", "phep", "lai", "xe">>, <<"bang", "lai">>, <<"gplx">> >>],
       [key |-> "dang ky ket hon",
        keywords |-> << <<"ket", "hon">>, <<"lay", "vo">>, <<"lay", "chong">> >>],
       [key |-> "dang ky kinh doanh",
        keywords |-> << <<"dang", "ky", "kinh", "doanh">>, <<"ho", "kinh", "doanh">> >>],
       [key |-> "ly hon",
        keywords |-> << <<"ly", "hon">>, <<"chia", "tay">> >>],
       [key |-> "thanh lap doanh nghiep",
        keywords |-> << <<"thanh", "lap", "doanh", "nghiep">>,
                        <<"thanh", "lap", "cong", "ty">>, <<"mo", "cong", "ty">> >>],
       [key |-> "thua ke",
        keywords |-> << <<"thua", "ke">>, <<"di", "san">> >>],
       [key |-> "so do",
        keywords |-> << <<"so", "do">>, <<"so", "hong">>,
                        <<"quyen", "su", "dung", "dat">>, <<"dat", "dai">> >>],
       [key |-> "tam tru",
        keywords |-> << <<"tam", "tru">>, <<"vang", "mat">> >>],
       [key |-> "thong bao mau dau",
        keywords |-> << <<"mau", "dau">>, <<"con", "dau">> >>],
       [key |-> "tam ngung kinh doanh",
        keywords |-> << <<"tam", "ngung", "kinh", "doanh">>, <<"ngung", "kinh", "doanh">> >>],
       [key |-> "giao thong",
        keywords |-> << <<"giao", "thong">>, <<"xe", "may">>, <<"o", "to">>,
                        <<"bien", "bao">>, <<"bi", "phat">> >>] >>

\* any(kw in query_lower for kw in keywords)
Matches(q, i) ==
    \E k \in 1..Len(key_map[i].keywords) : Contains(q, key_map[i].keywords[k])

NoKey == "None"

\* a variant in which the last topic that matches wins
LastMatch(q) ==
    LET hits == {i \in 1..Len(key_map) : Matches(q, i)} IN
    IF hits = {} THEN NoKey
    ELSE key_map[CHOOSE i \in hits : \A j \in hits : j <= i].key

\* for key, keywords in key_map.items(): ... matched_key = key; break
FirstMatch(q) ==
    LET hits == {i \in 1..Len(key_map) : Matches(q, i)} IN
    IF hits = {} THEN NoKey
    ELSE key_map[CHOOSE i \in hits : \A j \in hits : i <= j].key

\* procedures[key]: every entry has title, steps, documents, time, fee and note
Procedure(key) ==
    [title |-> "title: " \o key, steps |-> <<"step 1: " \o key, "step 2: " \o key>>,
     documents |-> <<"document: " \o key>>, time |-> "time: " \o key,
     fee |-> "fee: " \o key, note |-> "note: " \o key]

\* the response built from a procedure
ProcedureText(key) ==
    LET proc == Procedure(key) IN
    <<"## " \o proc.title, "### CAC BUOC THUC HIEN:">> \o proc.steps
    \o <<"### HO SO CAN THIET:">>
    \o [i \in 1..Len(proc.documents) |-> "- " \o proc.documents[i]]
    \o <<"### THOI GIAN: " \o proc.time, "### PHI: " \o proc.fee,
         "### LUU Y: " \o proc.note>>

\* the fixed answer of the topic "giao thong"
TrafficText == <<"## Tra cuu Luat Giao thong Duong bo", "Ban co the hoi cu the ve ...">>

FallbackMarker == "[FALLBACK_SIGNAL]"

\* the texts of the vector search
NoMatchText(q)  == <<FallbackMarker, "Toi chua tim thay thong tin chi tiet ve">> \o q
                   \o <<"Ban vui long su dung cong cu web_search">>
VectorErrorText == <<FallbackMarker, "He thong tra cuu noi bo dang gap su co",
                     "Vui long su dung cong cu web_search">>
UnavailableText == <<"Xin loi, he thong tra cuu dang tam thoi khong kha dung">>
ResultsText     == <<"Dua tren tai lieu phap luat, toi tim thay thong tin sau:",
                     "### Ket qua 1", "Luu y: Day la tham khao chung">>

\* `if not index: return ...`
NoIndexReturn == UnavailableText

\* a variant that answers an empty search with an empty text
EmptyText(q) == <<>>

\* `if not results or not results.get('matches'): return ...`
NoMatchReturn(q) == NoMatchText(q)

\* what the collaborators of one call can do
ToolEnvs ==
    [optimizer  : {"none", "ok", "timeout", "raises"},
     embeddings : {"ok", "load_raises", "embed_raises"},
     index      : {"connected", "none", "raises"},
     search     : {"matches", "empty", "raises"}]

\* the vector search, from `embeddings = resources.embeddings` on; every exception
\* inside is caught by `except Exception as vector_error`
VectorSearch(q, env) ==
    IF env.embeddings = "load_raises"
    THEN [text |-> VectorErrorText, calls |-> <<"embeddings">>]
    ELSE IF env.index = "raises"
    THEN [text |-> VectorErrorText, calls |-> <<"embeddings", "get_index">>]
    ELSE IF env.index = "none"
    THEN [text |-> NoIndexReturn, calls |-> <<"embeddings", "get_index">>]
    ELSE IF env.embeddings = "embed_raises"
    THEN [text |-> VectorErrorText, calls |-> <<"embeddings", "get_index", "embed_query">>]
    ELSE LET calls == <<"embeddings", "get_index", "embed_query", "index.query">> IN
         IF env.search = "raises" THEN [text |-> VectorErrorText, calls |-> calls]
         ELSE IF env.search = "empty" THEN [text |-> NoMatchReturn(q), calls |-> calls]
         ELSE [text |-> ResultsText, calls |-> calls]

\* what the fast model answers to the optimizer prompt: keywords for the question
Optimized(q) == <<"keywords:">> \o q

\* a variant that searches with the optimizer's answer whatever became of the call
AlwaysOptimized(q, env) == Optimized(q)

\* search_query = query, replaced by the stripped answer of the fast model when
\* there is a fast model and its answer comes within 5 seconds
SearchQuery(q, env) == IF env.optimizer = "ok" THEN Optimized(q) ELSE q

\* legal_assistant(query): the knowledge base first; without a match the query
\* optimizer (when there is one; its failures are swallowed) and the vector search
legal_assistant(q, env) ==
    LET matched_key == FirstMatch(Normalize(q)) IN
    IF matched_key # NoKey
    THEN [text |-> IF matched_key = "giao thong" THEN TrafficText
                   ELSE ProcedureText(matched_key),
          calls |-> <<>>, search_query |-> NotSearched]
    ELSE LET opt == IF env.optimizer = "none" THEN <<>> ELSE <<"fast_llm.ainvoke">>
             vs  == VectorSearch(q, env)
         IN [text |-> vs.text, calls |-> opt \o vs.calls,
             search_query |-> IF \E i \in 1..Len(vs.calls) : vs.calls[i] = "embed_query"
                              THEN SearchQuery(q, env) ELSE NotSearched]

\* one call of the tool
InvokeLegalAssistant ==
    /\ clients = "tool" /\ toolPc = "idle"
    /\ \E env \in ToolEnvs :
         /\ toolEnv' = env
         /\ toolOut' = legal_assistant(query, env)
    /\ toolPc' = "done"
    /\ UNCHANGED <<envVars, graphVars, loopVars, dbVars, wsVars, syncVars, query,
                   resVars, upVars>>

\* calls of legal_assistant with every query and every behaviour of its collaborators
InitTool ==
    /\ InitProgram
    /\ gemini_with_tools = "bound" /\ supabase = TRUE
    /\ clients = "tool" /\ budget = 0 /\ toolsCounted = TRUE
    /\ toolPc = "idle" /\ query \in Queries /\ toolEnv = NoEnv /\ toolOut = NoOut
    /\ NoResourceUse /\ NoUploadInFlight

NextTool == InvokeLegalAssistant

SpecTool == InitTool /\ [][NextTool]_vars

\* ------------------------------------- app/core/resources.py: the accessors
\* a thread enters an accessor
ResCall ==
    /\ clients = "resources" /\ budget > 0
    /\ \E t \in Threads, call \in Accessors :
         /\ tpos[t] = "idle"
         /\ tcall' = [tcall EXCEPT ![t] = call]
         /\ tpos' = [tpos EXCEPT ![t] = "check"]
         /\ tgot' = [tgot EXCEPT ![t] = NoResult]
         /\ tclient' = [tclient EXCEPT ![t] = None]
    /\ budget' = budget - 1
    /\ UNCHANGED <<clients, toolsCounted, graphVars, loopVars, dbVars,
                   wsVars, syncVars, toolVars, fields, built, lock, api_key, upVars>>

\* `if self._x is None:` before the lock
ResFirstCheck ==
    /\ \E t \in Threads :
         /\ tpos[t] = "check"
         /\ tpos' = [tpos EXCEPT ![t] = IF fields[AttrOf(tcall[t])] = None
                                        THEN "acquire" ELSE "return"]
    /\ UNCHANGED <<envVars, graphVars, loopVars, dbVars, wsVars, syncVars, toolVars,
                   fields, built, lock, api_key, tcall, tclient, tgot, upVars>>

\* `with self._x_lock:` the thread goes on when the lock is free
ResAcquire ==
    /\ \E t \in Threads :
         /\ tpos[t] = "acquire"
         /\ lock[LockOf(AttrOf(tcall[t]))] = None
         /\ lock' = [lock EXCEPT ![LockOf(AttrOf(tcall[t]))] = t]
         /\ tpos' = [tpos EXCEPT ![t] = "recheck"]
    /\ UNCHANGED <<envVars, graphVars, loopVars, dbVars, wsVars, syncVars, toolVars,
                   fields, built, api_key, tcall, tclient, tgot, upVars>>

\* the check under the lock: return what another thread built, or go on to build
ResSecondCheck ==
    /\ \E t \in Threads :
         LET attr == AttrOf(tcall[t])
         IN /\ tpos[t] = "recheck"
            /\ IF SecondCheck(fields[attr])
               THEN /\ lock' = Release(lock, {LockOf(attr)})
                    /\ tgot' = [tgot EXCEPT ![t] = CallReturned(attr, fields[attr])]
                    /\ tpos' = [tpos EXCEPT ![t] = "idle"]
               ELSE /\ tpos' = [tpos EXCEPT ![t] = IF tcall[t] = "get_index"
                                                   THEN "pc_check" ELSE "build"]
                    /\ UNCHANGED <<lock, tgot>>
    /\ UNCHANGED <<envVars, graphVars, loopVars, dbVars, wsVars, syncVars, toolVars,
                   fields, built, api_key, tcall, tclient, upVars>>

\* HuggingFaceEmbeddings(...) and ChatGroq(...): the constructor returns or throws;
\* embeddings re-raises, fast_llm returns None
ResBuild ==
    /\ \E t \in Threads, ok \in BOOLEAN :
         LET attr == AttrOf(tcall[t])
         IN /\ tpos[t] = "build"
            /\ lock' = Release(lock, {LockOf(attr)})
            /\ IF ok
               THEN /\ fields' = [fields EXCEPT ![attr] = NewInstance(attr)]
                    /\ built' = [built EXCEPT ![attr] = @ + 1]
                    /\ tpos' = [tpos EXCEPT ![t] = "return"]
                    /\ UNCHANGED tgot
               ELSE /\ tgot' = [tgot EXCEPT ![t] = IF tcall[t] = "embeddings"
                                                   THEN CallRaised(attr)
                                                   ELSE CallReturned(attr, None)]
                    /\ tpos' = [tpos EXCEPT ![t] = "idle"]
                    /\ UNCHANGED <<fields, built>>
    /\ UNCHANGED <<envVars, graphVars, loopVars, dbVars, wsVars, syncVars, toolVars,
                   api_key, tcall, tclient, upVars>>

\* get_index, `client = self.pc`: the first check of the property pc
PcFirstCheck ==
    /\ \E t \in Threads :
         /\ tpos[t] = "pc_check"
         /\ tpos' = [tpos EXCEPT ![t] = IF fields["_pinecone_client"] = None
                                        THEN "pc_acquire" ELSE "pc_return"]
    /\ UNCHANGED <<envVars, graphVars, loopVars, dbVars, wsVars, syncVars, toolVars,
                   fields, built, lock, api_key, tcall, tclient, tgot, upVars>>

\* pc, `with self._pc_lock:`
PcAcquire ==
    /\ \E t \in Threads :
         /\ tpos[t] = "pc_acquire"
         /\ lock[LockOf("_pinecone_client")] = None
         /\ lock' = [lock EXCEPT ![LockOf("_pinecone_client")] = t]
         /\ tpos' = [tpos EXCEPT ![t] = "pc_recheck"]
    /\ UNCHANGED <<envVars, graphVars, loopVars, dbVars, wsVars, syncVars, toolVars,
                   fields, built, api_key, tcall, tclient, tgot, upVars>>

\* pc under its lock: the client another thread built, None without an API key, or
\* go on to build
PcSecondCheck ==
    /\ \E t \in Threads :
         /\ tpos[t] = "pc_recheck"
         /\ IF SecondCheck(fields["_pinecone_client"])
            THEN /\ lock' = Release(lock, {LockOf("_pinecone_client")})
                 /\ tclient' = [tclient EXCEPT ![t] = fields["_pinecone_client"]]
                 /\ tpos' = [tpos EXCEPT ![t] = "connect"]
            ELSE IF ~api_key
            THEN /\ lock' = Release(lock, {LockOf("_pinecone_client")})
                 /\ tclient' = [tclient EXCEPT ![t] = None]
                 /\ tpos' = [tpos EXCEPT ![t] = "connect"]
            ELSE /\ tpos' = [tpos EXCEPT ![t] = "pc_build"]
                 /\ UNCHANGED <<lock, tclient>>
    /\ UNCHANGED <<envVars, graphVars, loopVars, dbVars, wsVars, syncVars, toolVars,
                   fields, built, api_key, tcall, tgot, upVars>>

\* Pinecone(api_key=api_key): returns or throws; the exception leaves pc and get_index
PcBuild ==
    /\ \E t \in Threads, ok \in BOOLEAN :
         /\ tpos[t] = "pc_build"
         /\ IF ok
            THEN /\ fields' = [fields EXCEPT !["_pinecone_client"] = NewInstance("_pinecone_client")]
                 /\ built' = [built EXCEPT !["_pinecone_client"] = @ + 1]
                 /\ lock' = Release(lock, {LockOf("_pinecone_client")})
                 /\ tpos' = [tpos EXCEPT ![t] = "pc_return"]
                 /\ UNCHANGED tgot
            ELSE /\ lock' = Release(lock, {LockOf("_pinecone_client"),
                                           LockOf("_pinecone_index")})
                 /\ tgot' = [tgot EXCEPT ![t] = CallRaised("_pinecone_index")]
                 /\ tpos' = [tpos EXCEPT ![t] = "idle"]
                 /\ UNCHANGED <<fields, built>>
    /\ UNCHANGED <<envVars, graphVars, loopVars, dbVars, wsVars, syncVars, toolVars,
                   api_key, tcall, tclient, upVars>>

\* pc, `return self._pinecone_client`
PcReturn ==
    /\ \E t \in Threads :
         /\ tpos[t] = "pc_return"
         /\ tclient' = [tclient EXCEPT ![t] = fields["_pinecone_client"]]
         /\ tpos' = [tpos EXCEPT ![t] = "connect"]
    /\ UNCHANGED <<envVars, graphVars, loopVars, dbVars, wsVars, syncVars, toolVars,
                   fields, built, lock, api_key, tcall, tgot, upVars>>

\* get_index, `if client:` client.Index(index_name) returns or throws
IndexConnect ==
    /\ \E t \in Threads, ok \in BOOLEAN :
         /\ tpos[t] = "connect"
         /\ lock' = Release(lock, {LockOf("_pinecone_index")})
         /\ IF tclient[t] = None
            THEN /\ ok
                 /\ tpos' = [tpos EXCEPT ![t] = "return"]
                 /\ UNCHANGED <<fields, built, tgot>>
            ELSE IF ok
            THEN /\ fields' = [fields EXCEPT !["_pinecone_index"] = NewInstance("_pinecone_index")]
                 /\ built' = [built EXCEPT !["_pinecone_index"] = @ + 1]
                 /\ tpos' = [tpos EXCEPT ![t] = "return"]
                 /\ UNCHANGED tgot
            ELSE /\ tgot' = [tgot EXCEPT ![t] = CallRaised("_pinecone_index")]
                 /\ tpos' = [tpos EXCEPT ![t] = "idle"]
                 /\ UNCHANGED <<fields, built>>
    /\ UNCHANGED <<envVars, graphVars, loopVars, dbVars, wsVars, syncVars, toolVars,
                   api_key, tcall, tclient, upVars>>

\* the last line of the accessor: `return self._x`
ResReturn ==
    /\ \E t \in Threads :
         /\ tpos[t] = "return"
         /\ tgot' = [tgot EXCEPT ![t] = CallReturned(AttrOf(tcall[t]), fields[AttrOf(tcall[t])])]
         /\ tpos' = [tpos EXCEPT ![t] = "idle"]
    /\ UNCHANGED <<envVars, graphVars, loopVars, dbVars, wsVars, syncVars, toolVars,
                   fields, built, lock, api_key, tcall, tclient, upVars>>

\* threads in the accessors of `resources`, with and without an API key
InitResources ==
    /\ InitProgram
    /\ NoTool /\ NoUploadInFlight
    /\ FreshResources /\ api_key \in BOOLEAN
    /\ clients = "resources" /\ budget = MaxInputs /\ toolsCounted = TRUE

NextResources ==
    \/ ResCall \/ ResFirstCheck \/ ResAcquire \/ ResSecondCheck \/ ResBuild
    \/ PcFirstCheck \/ PcAcquire \/ PcSecondCheck \/ PcBuild \/ PcReturn
    \/ IndexConnect \/ ResReturn

SpecResources == InitResources /\ [][NextResources]_vars

\* ---------------------------------- chat.py: upload_pdf, requests that overlap
\* upload_pdf is a coroutine: the requests that are in flight take turns at its awaits
\* (the ownership query, aget_state, aupdate_state, the insert of the confirmation)
UploadReceive ==
    /\ clients = "uploading" /\ budget > 0 /\ Spend(1)
    /\ \E h \in Handlers, cid \in {1, 2}, f \in Files, readable \in BOOLEAN,
          silent \in BOOLEAN :
         LET owned  == supabase /\ conversations[cid] = "alice"
             status == IF ~supabase THEN 500 ELSE IF ~owned THEN 403 ELSE 400
         IN /\ uploads[h].pc = "idle"
            /\ ~owned => readable
            /\ ~(owned /\ readable) => silent
            /\ IF owned /\ readable
               THEN /\ uploads' = [uploads EXCEPT ![h] =
                                      [pc |-> "get_state", conversation_id |-> cid,
                                       filename |-> f, silent |-> silent,
                                       existing_pdf_context |-> <<>>]]
                    /\ UNCHANGED uploadLog
               ELSE /\ uploadLog' = Append(uploadLog, [conversation_id |-> cid,
                                                       filename |-> f, status |-> status])
                    /\ UNCHANGED uploads
    /\ UNCHANGED <<clients, toolsCounted, graphVars, loopVars, dbVars, wsVars, syncPc,
                   syncCount, request, syncResponse, toolVars, resVars>>

\* current_state = await agent_executor.aget_state(config)
UploadGetState ==
    /\ \E h \in Handlers :
         /\ uploads[h].pc = "get_state"
         /\ uploads' = [uploads EXCEPT
                          ![h].existing_pdf_context = memory[uploads[h].conversation_id].pdf_context,
                          ![h].pc = "update_state"]
    /\ UNCHANGED <<envVars, graphVars, loopVars, dbVars, wsVars, syncVars, toolVars,
                   resVars>>

\* await agent_executor.aupdate_state(config, {"pdf_context": updated_context})
UploadUpdateState ==
    /\ \E h \in Handlers :
         /\ uploads[h].pc = "update_state"
         /\ memory' = [memory EXCEPT ![uploads[h].conversation_id].pdf_context =
                          UpdatedContext(uploads[h].existing_pdf_context,
                                         uploads[h].filename)]
         /\ uploads' = [uploads EXCEPT ![h].pc = "save"]
    /\ UNCHANGED <<envVars, gemini_with_tools, loopVars, dbVars, wsVars, syncVars,
                   toolVars, resVars>>

\* the confirmation message, unless silent (500 when its insert fails), and the answer
UploadSaveMessage ==
    /\ \E h \in Handlers, saved \in BOOLEAN :
         LET cid == uploads[h].conversation_id
             f   == uploads[h].filename
         IN /\ uploads[h].pc = "save"
            /\ uploads[h].silent => saved
            /\ db_msgs' = IF saved /\ ~uploads[h].silent
                          THEN [db_msgs EXCEPT ![cid] =
                                   Append(@, [role |-> "assistant",
                                              content |-> PdfAttachment(f)])]
                          ELSE db_msgs
            /\ uploadLog' = Append(uploadLog, [conversation_id |-> cid, filename |-> f,
                                               status |-> IF saved THEN 200 ELSE 500])
            /\ uploads' = [uploads EXCEPT ![h] = NoUpload]
    /\ UNCHANGED <<envVars, graphVars, loopVars, supabase, conversations, wsVars, syncPc,
                   syncCount, request, syncResponse, toolVars, resVars>>

\* uploads only, as many in flight as there are handlers
InitUploads ==
    /\ InitProgram
    /\ NoTool /\ NoResourceUse /\ NoUploadInFlight
    /\ clients = "uploading" /\ budget = MaxInputs /\ toolsCounted = TRUE

NextUploads == UploadReceive \/ UploadGetState \/ UploadUpdateState \/ UploadSaveMessage

SpecUploads == InitUploads /\ [][NextUploads]_vars

\* =================================================================== claims
\* ---------------------------------------------- reading the trace of a turn
IsSend(e)      == e.k = "send"
IsLoopEvent(e) == e.k = "send" /\ e.type \in {"status", "token"}
IsToken(e)     == e.k = "send" /\ e.type = "token"

Sends     == SelectSeq(trace, IsSend)
LoopSends == SelectSeq(trace, IsLoopEvent)
TokenSends == SelectSeq(trace, IsToken)

Positions(k, type) == {i \in 1..Len(trace) : trace[i].k = k /\ trace[i].type = type}
Sent(type)     == Positions("send", type)
Written(op)    == {i \in Positions("db", op) : trace[i].ok}
DbFailed       == \E i \in 1..Len(trace) : trace[i].k = "db" /\ ~trace[i].ok
HasRaised      == Positions("raise", "graph_err") # {}

\* the place of an outward event in  meta? start (status|token)* (end|error)
Rank(e) == CASE e.type = "meta"  -> 0
             [] e.type = "start" -> 1
             [] e.type \in {"status", "token"} -> 2
             [] e.type \in {"end", "error"}    -> 3

\* the events of the run that the endpoint forwards, and what each is forwarded as
IsForwarded(e) ==
    \/ e.event = "on_tool_start"
    \/ e.event = "on_chat_model_stream" /\ ~e.tool_call_chunks /\ e.content # <<>>
ForwardedAs(e) ==
    IF e.event = "on_tool_start"
    THEN [type |-> "status", content |-> <<"Running tool: " \o e.name>>]
    ELSE [type |-> "token", content |-> e.content]

IsPrefix(s, t) == Len(s) <= Len(t) /\ s = SubSeq(t, 1, Len(s))
AllButLast(s)  == SubSeq(s, 1, Len(s) - 1)
Backends       == {models_to_try[i] : i \in 1..Len(models_to_try)}

\* C1: in one invocation of call_model the backends are attempted in list order,
\* each at most once (the attempts are always a prefix of models_to_try); the
\* response returned is that of the first backend that succeeded, which is the last
\* one attempted, so no later backend is attempted and every failure, of whatever
\* class, moved on to the next backend.
C1_FallbackOrder ==
    /\ IsPrefix(attempts, models_to_try)
    /\ cmReturn # NoReturn /\ served \in Backends =>
          /\ attempts # <<>>
          /\ served = Last(attempts)
          /\ attempts = SubSeq(models_to_try, 1, cmIndex)
    /\ cmReturn = NoReturn => Len(attempts) = cmIndex - 1

\* C1 witness: the first two backends failed, the third answered, and its response
\* is the one returned
C1_Witness ==
    /\ attempts = models_to_try
    /\ served = "Gemini 2.5 Flash"
    /\ cmReturn # NoReturn /\ cmReturn.content # <<>>

\* C2: when every backend of the chain has failed (a Gemini handle of None
\* included), call_model returns an update whose one message is the fixed apology,
\* without tool calls; it returns, it does not raise.
C2_AllFailApology ==
    (loopPc = "agent" /\ Len(attempts) = Len(models_to_try) /\ served \notin Backends) =>
        /\ cmReturn = AIMessage(Apology, <<>>)
        /\ served = "apology"

\* C2 witness: Gemini was never initialised, all three attempts failed, the apology
\* is returned
C2_Witness ==
    /\ gemini_with_tools = "None"
    /\ attempts = models_to_try
    /\ served = "apology"
    /\ cmReturn.content = Apology

\* C3: when the history holds ToolCallCeiling + 1 = 5 or more tool-call-bearing
\* messages before the latest response, the step that leaves the agent node goes to
\* END whatever that response asks for, and no tool is run.
C3_CeilingForcesEnd ==
    [][(/\ loopPc = "agent" /\ cmReturn # NoReturn
        /\ CountToolCallBearing(memory[thread].messages) >= ToolCallCeiling + 1)
       => (/\ loopPc' # "tools"
           /\ toolRuns' = toolRuns
           /\ (cmReturn' = NoReturn /\ runner' = runner => loopPc' = "END"))]_vars

\* C3 witness: the run has ended on a response that asks for tools, five or more
\* tool-call-bearing messages came before it, and its tools were not run
C3_Witness ==
    /\ loopPc = "END"
    /\ memory[thread].messages # <<>>
    /\ Last(memory[thread].messages).tool_calls # <<>>
    /\ CountToolCallBearing(AllButLast(memory[thread].messages)) >= ToolCallCeiling + 1
    /\ toolRuns = <<>>

\* C4: the events sent in one turn, in send order, are a subsequence of
\* meta? start (status|token)* (end|error): ranks never decrease, meta and start are
\* sent at most once, end and error at most once together; and the status and token
\* events are the forwarded events of the run in the order the run yielded them
\* (followed at most by the one token of the fallback).
C4_EventGrammar ==
    /\ \A i, j \in 1..Len(Sends) : i < j => Rank(Sends[i]) <= Rank(Sends[j])
    /\ Cardinality(Sent("meta")) <= 1
    /\ Cardinality(Sent("start")) <= 1
    /\ Cardinality(Sent("end") \cup Sent("error")) <= 1
    /\ LET fw == SelectSeq(produced, IsForwarded) IN
       /\ Len(fw) <= Len(LoopSends) /\ Len(LoopSends) <= Len(fw) + 1
       /\ \A i \in 1..Len(fw) :
             /\ LoopSends[i].type = ForwardedAs(fw[i]).type
             /\ LoopSends[i].content = ForwardedAs(fw[i]).content
       /\ Len(LoopSends) = Len(fw) + 1 => Last(LoopSends).type = "token"

\* C4 witness: a turn that sent meta, start, a status, a token and end
C4_Witness ==
    /\ Sent("meta") # {} /\ Sent("start") # {} /\ Sent("status") # {}
    /\ Sent("token") # {} /\ Sent("end") # {}

\* C5: when a turn's run completed without any incremental token and the last
\* message of the final state has content, exactly one token event was sent, it
\* carries that content, it precedes the end event, and end carries the same content.
C5_FallbackToken ==
    (/\ Sent("end") # {} /\ tokens_streamed = 0
     /\ memory[thread].messages # <<>>
     /\ Last(memory[thread].messages).content # <<>>) =>
        LET final == Last(memory[thread].messages).content IN
        /\ Len(TokenSends) = 1
        /\ TokenSends[1].content = final
        /\ \A i \in Sent("token"), j \in Sent("end") : i < j
        /\ \A j \in Sent("end") : trace[j].content = final

\* C5 witness: the backend answered "a","b" in one piece, nothing was streamed, and
\* the end event has been sent
C5_Witness ==
    /\ Sent("end") # {} /\ tokens_streamed = 0
    /\ memory[thread].messages # <<>>
    /\ Last(memory[thread].messages).content = <<"a", "b">>
    /\ produced = <<>>

\* the conversations on record before the session began
Preexisting == {1, 2}

\* C6: a meta event is sent exactly when the turn created a conversation (directly
\* after the insert that returned the row), it carries the id the session now
\* holds, and nothing but database calls precedes it in the turn, so it comes before
\* start and before any token; a session creates at most one conversation and sends
\* at most one meta, and none when it was opened with an identity.
C6_MetaOncePerCreation ==
    /\ created <= 1 /\ metas = created
    /\ created = 0 => conversation_id \in Preexisting \cup {None}
    /\ created = 1 => conversation_id \notin Preexisting \cup {None}
    /\ Cardinality(Sent("meta")) = Cardinality(Written("create"))
    /\ \A j \in Sent("meta") :
          /\ j > 1 /\ (j - 1) \in Written("create")
          /\ trace[j].content = ConvName(conversation_id)
          /\ \A i \in 1..(j - 1) : trace[i].k = "db"

\* C6 witness: the first turn created the conversation and sent meta; the second
\* turn of the session has started its run without creating or announcing anything
C6_Witness ==
    /\ turn = 2 /\ created = 1 /\ metas = 1
    /\ conversation_id \notin Preexisting \cup {None}
    /\ Sent("start") # {} /\ Sent("meta") = {} /\ Positions("db", "create") = {}

\* C7 as the specification states it: the user message and the assistant message
\* are both written only after the end event has been sent.
C7_PersistOnlyAfterEnd ==
    \A i \in Written("save_user") \cup Written("save_assistant") :
        \E j \in Sent("end") : j < i

\* C7 as the code has it: the assistant message is written only after the end
\* event has been sent; the user message is written before the start event, that
\* is before the control loop runs.
C7_UserBeforeStartAssistantAfterEnd ==
    /\ \A i \in Written("save_assistant") : \E j \in Sent("end") : j < i
    /\ \A i \in Positions("db", "save_assistant") : \E j \in Sent("end") : j < i
    /\ \A i \in Positions("db", "save_user") :
          \A j \in Sent("start") \cup Sent("status") \cup Sent("token")
                   \cup Sent("end") \cup Sent("error") : i < j
    /\ wsPc \in {"start", "stream", "end", "saveAssistant"} /\ conversation_id # None /\ supabase
          => Positions("db", "save_user") # {}

\* C7 witness: a turn in which the user message was written, then start and end
\* were sent, then the assistant message was written
C7_Witness ==
    /\ Written("save_user") # {} /\ Written("save_assistant") # {}
    /\ \E u \in Written("save_user"), b \in Sent("start"), e \in Sent("end"),
          a \in Written("save_assistant") : u < b /\ b < e /\ e < a

\* C8 as the specification states it: when the connection drops while the run of a
\* turn is in flight, at most one more node of the graph is entered (no further
\* model or tool step of the turn runs) and no assistant message is written for the
\* turn.
C8_LoopAbandonedOnDrop ==
    droppedInStream =>
        /\ loopStepsAfterDrop <= 1
        /\ Positions("db", "save_assistant") = {}

\* C9: a database call that fails during a turn is never answered by an error event
\* (an error event of the turn comes from an exception of the run only), does not
\* keep the end event from being sent, and does not end the session (a session that
\* is closed after it was closed by the client's disconnect or by the log file); the
\* synchronous endpoint answers 200 with the answer of the run although the save
\* failed.
C9_PersistenceFailureSwallowed ==
    /\ DbFailed =>
          /\ Sent("error") # {} => HasRaised
          /\ wsPc = "closed" => closeReason \in {"disconnect", "log_failed"}
          /\ wsPc # "closed" => active
          /\ wsPc \in {"saveAssistant", "recv"} /\ ~HasRaised => Sent("end") # {}
    /\ syncResponse.saved = "failed" =>
          /\ syncResponse.status = 200
          /\ syncResponse.response = Last(memory[thread].messages).content

\* C9 witness: in one turn the insert of the user message and the insert of the
\* assistant message both failed, end was sent, and the session waits for the next
\* message
C9_Witness ==
    /\ wsPc = "recv" /\ active
    /\ \E i \in Positions("db", "save_user") : ~trace[i].ok
    /\ \E i \in Positions("db", "save_assistant") : ~trace[i].ok
    /\ Sent("end") # {} /\ Sent("error") = {}

\* C10: when the run of a turn raises, exactly one error event is sent for the turn,
\* no end event is sent, no assistant message is written, and the session stays in
\* its while loop: it is back at receive_text, still registered, and takes the next
\* message while the client sends one (it ends only by the client's disconnect).
C10_GraphErrorEndsTurnOnly ==
    HasRaised =>
        /\ Cardinality(Sent("error")) = 1
        /\ Sent("end") = {}
        /\ Positions("db", "save_assistant") = {}
        /\ \/ wsPc = "recv" /\ active
           \/ wsPc = "closed" /\ closeReason = "disconnect"
        /\ wsPc = "recv" /\ budget > 0 => ENABLED WsReceive

\* C10 witness: the run of the first turn raised before the model answered, and the
\* run of the second turn of the same session is in flight
C10_Witness ==
    /\ wsPc = "stream" /\ turn = 2 /\ conversation_id = None
    /\ Len(memory[None].messages) >= 2
    /\ memory[None].messages[1] = HumanMessage(Utterance(1))
    /\ memory[None].messages[2] = HumanMessage(Utterance(2))

\* ------------------------------------------------------------ pdf_context
RECURSIVE IsSubsequence(_, _)
IsSubsequence(s, t) ==
    IF s = <<>> THEN TRUE
    ELSE IF t = <<>> THEN FALSE
    ELSE IF Head(s) = Head(t) THEN IsSubsequence(Tail(s), Tail(t))
    ELSE IsSubsequence(s, Tail(t))

\* the texts of the uploads to conversation c that were answered with success, in
\* upload order
RECURSIVE SuccessfulTexts(_, _)
SuccessfulTexts(log, c) ==
    IF log = <<>> THEN <<>>
    ELSE (IF Head(log).conversation_id = c /\ Head(log).status = 200
          THEN <<ExtractedText(Head(log).filename)>> ELSE <<>>)
         \o SuccessfulTexts(Tail(log), c)

\* C11: the checkpointed pdf_context of a conversation holds the extracted text of
\* every document uploaded to it with success, in upload order; and no step replaces
\* or removes what pdf_context held: each step leaves it as it was or appends to it.
C11_PdfContextAppendOnly ==
    /\ [](\A c \in {1, 2} : IsSubsequence(SuccessfulTexts(uploadLog, c), memory[c].pdf_context))
    /\ [][\A t \in ThreadIds : IsPrefix(memory[t].pdf_context, memory'[t].pdf_context)]_vars

\* C11 witness: two different documents were uploaded with success to conversation 1
\* one after the other, a request to the conversation was answered in between or
\* after, and pdf_context holds both texts, the first before the second
C11_Witness ==
    /\ Len(uploadLog) = 2
    /\ uploadLog[1].conversation_id = 1 /\ uploadLog[2].conversation_id = 1
    /\ uploadLog[1].status = 200 /\ uploadLog[2].status = 200
    /\ uploadLog[1].filename = "a.pdf" /\ uploadLog[2].filename = "b.pdf"
    /\ memory[1].messages # <<>>
    /\ memory[1].pdf_context = <<"--- DOCUMENT: a.pdf ---", "text of a.pdf",
                                 "--- DOCUMENT: b.pdf ---", "text of b.pdf">>

\* ------------------------------------------------- the call of legal_assistant
HasMarker == \E i \in 1..Len(toolOut.text) : toolOut.text[i] = FallbackMarker
Called(c) == \E i \in 1..Len(toolOut.calls) : toolOut.calls[i] = c
\* the topics with an alias in the lower-cased query
Hits == {i \in 1..Len(key_map) : Matches(Lower(query), i)}
MarriageAlias == <<"ket", "hon">>

\* C12 as the specification states it: when legal_assistant, after no match in the
\* knowledge base, gets no index from get_index, the text it returns contains the
\* marker [FALLBACK_SIGNAL].
C12_NoIndexSignalsFallback ==
    (toolPc = "done" /\ Hits = {} /\ Called("get_index") /\ toolEnv.index = "none")
        => HasMarker

\* C13: legal_assistant returns a text that is not empty whatever its collaborators
\* do; when the index query was made and returned no match or raised, when the
\* embedding (loading the model, embedding the query) raised, or when connecting to
\* the index raised, the text contains the marker [FALLBACK_SIGNAL].
C13_SearchFailureSignalsFallback ==
    toolPc = "done" =>
        /\ toolOut.text # <<>>
        /\ Called("index.query") /\ toolEnv.search \in {"empty", "raises"} => HasMarker
        /\ Called("embed_query") /\ toolEnv.embeddings = "embed_raises" => HasMarker
        /\ Called("embeddings") /\ toolEnv.embeddings = "load_raises" => HasMarker
        /\ Called("get_index") /\ toolEnv.index = "raises" => HasMarker

\* C13 witness: a query without a topic of the knowledge base was embedded, the
\* index returned no match, and the text returned carries the marker and the query
C13_Witness ==
    /\ toolPc = "done" /\ query = <<"hon", "thong">>
    /\ Called("index.query") /\ toolEnv.search = "empty"
    /\ HasMarker
    /\ Contains(toolOut.text, query)

\* C14 as the specification states it: on a match the procedure text of the first
\* topic, in mapping order, with an alias in the lower-cased query is returned,
\* without query rewrite, embedding or index call; a query containing "ket hon"
\* returns the marriage-registration procedure.
C14_FirstTopicProcedure ==
    toolPc = "done" =>
        /\ \A i \in Hits : (\A j \in Hits : i <= j) =>
              /\ toolOut.text = ProcedureText(key_map[i].key)
              /\ toolOut.calls = <<>>
        /\ Contains(Lower(query), MarriageAlias) =>
              toolOut.text = ProcedureText("dang ky ket hon")

\* C14 as the code has it: on a match the fixed text of the first topic, in mapping
\* order, with an alias in the lower-cased query is returned without query rewrite,
\* embedding or index call: the procedure text (steps, documents, time, fee, note)
\* for the ten procedures, a guidance text without those fields for the topic "giao
\* thong"; without a match the vector search is made.  A query containing "ket hon"
\* and no alias of the driving licence, the topic before it in the mapping, returns
\* the marriage-registration procedure.
C14_FirstTopicFixedText ==
    toolPc = "done" =>
        /\ \A i \in Hits : (\A j \in Hits : i <= j) =>
              /\ toolOut.text = IF key_map[i].key = "giao thong" THEN TrafficText
                                ELSE ProcedureText(key_map[i].key)
              /\ toolOut.calls = <<>>
        /\ Hits = {} => Called("embeddings")
        /\ (Contains(Lower(query), MarriageAlias) /\ 1 \notin Hits) =>
              /\ toolOut.text = ProcedureText("dang ky ket hon")
              /\ \E i \in 1..Len(toolOut.text) : toolOut.text[i] = "### PHI: fee: dang ky ket hon"

\* C14 witness: the query "thong KET hon" was answered with the marriage-registration
\* procedure and no collaborator was called
C14_Witness ==
    /\ toolPc = "done" /\ query = <<"thong", "KET", "hon">>
    /\ toolOut.text = ProcedureText("dang ky ket hon")
    /\ toolOut.calls = <<>>

\* ------------------------------------------------------ the edge out of AGENT
\* the step that ends the agent node: call_model has returned and the run goes on
LeavesAgent == loopPc = "agent" /\ cmReturn # NoReturn /\ cmReturn' = NoReturn
               /\ runner' = runner
\* tool-call-bearing messages held before the latest response is merged
PriorToolCalls == CountToolCallBearing(memory[thread].messages)

\* C15 as the specification states it: from AGENT the loop enters TOOLS exactly when
\* the latest response carries a tool call and at most ToolCallCeiling = 4
\* tool-call-bearing messages came before it; otherwise it goes to END with the
\* latest response as the last message.
C15_ToolsIffPriorWithinCeiling ==
    [][LeavesAgent =>
         /\ loopPc' = "tools" <=>
               (cmReturn.tool_calls # <<>> /\ PriorToolCalls <= ToolCallCeiling)
         /\ loopPc' # "tools" =>
               (loopPc' = "END" /\ Last(memory'[thread].messages) = cmReturn)]_vars

\* C15 as the code has it: the latest response is counted too.  From AGENT the loop
\* enters TOOLS exactly when the latest response carries a tool call and the
\* tool-call-bearing messages of the state, the latest response included, are at
\* most 4 (at most 3 before it); otherwise it goes to END with the latest response
\* as the last message.
C15_ToolsIffTotalWithinCeiling ==
    [][LeavesAgent =>
         /\ loopPc' = "tools" <=>
               (cmReturn.tool_calls # <<>> /\ PriorToolCalls + 1 <= ToolCallCeiling)
         /\ loopPc' # "tools" =>
               (loopPc' = "END" /\ Last(memory'[thread].messages) = cmReturn)]_vars

\* C15 witness: a response that asks for tools came after exactly four
\* tool-call-bearing messages of the same run, whose tools were run, and the run
\* ended on it
C15_Witness ==
    /\ loopPc = "END"
    /\ memory[thread].messages # <<>>
    /\ Last(memory[thread].messages).tool_calls # <<>>
    /\ CountToolCallBearing(AllButLast(memory[thread].messages)) = ToolCallCeiling
    /\ Len(toolRuns) = ToolCallCeiling * Len(Last(memory[thread].messages).tool_calls)

\* C16: a run of the graph that is in flight reaches END, whatever the backends
\* answer (a backend that asks for tools with every response included) and however
\* they fail; and the tools are run in at most ToolCallCeiling rounds per run.
C16_LoopTerminates ==
    /\ (loopPc \in {"agent", "tools"}) ~> (loopPc = "END")
    /\ [](Len(toolRuns) <= ToolCallCeiling * Len(RequestedTools))

\* C16 witness: the run ended after every response had asked for tools: four rounds
\* were run and the fifth request was not
C16_Witness ==
    /\ loopPc = "END"
    /\ Len(toolRuns) = ToolCallCeiling * Len(RequestedTools)
    /\ Last(memory[thread].messages).tool_calls # <<>>
    /\ \A i \in 1..Len(memory[thread].messages) :
          memory[thread].messages[i].type = "ai" =>
              memory[thread].messages[i].tool_calls # <<>>

\* C17: the ceiling counts every message the thread's state holds, those
\* checkpointed by earlier runs on the thread included: the tools node is only ever
\* entered with at most ToolCallCeiling tool-call-bearing messages in the state,
\* and once the state of a thread holds more than ToolCallCeiling of them, it holds
\* that many ever after and no run on that thread enters the tools node again.
C17_CeilingCountsWholeThread ==
    /\ [](loopPc = "tools" =>
            CountToolCallBearing(memory[thread].messages) <= ToolCallCeiling)
    /\ [][\A t \in ThreadIds :
             CountToolCallBearing(memory[t].messages) > ToolCallCeiling
                => /\ CountToolCallBearing(memory'[t].messages) > ToolCallCeiling
                   /\ ~(thread' = t /\ loopPc' = "tools")]_vars

\* C17 witness: a second run on a thread whose state already held more than
\* ToolCallCeiling tool-call-bearing messages: its first response asked for tools
\* and the run ended without running any
C17_Witness ==
    /\ loopPc = "END" /\ syncCount = 2
    /\ toolRuns = <<>>
    /\ Last(memory[thread].messages).tool_calls # <<>>
    /\ CountToolCallBearing(memory[thread].messages) = ToolCallCeiling + 2
    /\ memory[thread].messages[Len(memory[thread].messages) - 1].type = "human"

\* the messages of the run in flight: those after the last message of the user
ThisRun == SubSeq(memory[thread].messages, LastHuman(memory[thread].messages) + 1,
                  Len(memory[thread].messages))
IsToolMsg(m) == m.type = "tool"
IsAnswerTo(m, call) == m.type = "tool" /\ m.content = <<"result_" \o call>>
ToolsRan == loopPc = "tools" /\ loopPc' = "agent"
ModelInvoked == attempts' # attempts /\ attempts' # <<>>

\* what holds of every dispatch: the tools node runs each call of the latest
\* response once, in order, and appends one answer per call, each telling its call;
\* over a run the calls run are exactly the calls answered; and a backend is only
\* invoked on a state whose latest message has no call waiting
DispatchedOnce ==
    /\ [](loopPc # "idle" =>
            /\ Len(SelectSeq(ThisRun, IsToolMsg)) = Len(toolRuns)
            /\ \A k \in 1..Len(toolRuns) :
                  IsAnswerTo(SelectSeq(ThisRun, IsToolMsg)[k], toolRuns[k]))
    /\ [][ToolsRan =>
            LET msgs == memory[thread].messages
                tcs  == Last(msgs).tool_calls
            IN /\ toolRuns' = toolRuns \o tcs
               /\ Len(memory'[thread].messages) = Len(msgs) + Len(tcs)
               /\ SubSeq(memory'[thread].messages, 1, Len(msgs)) = msgs
               /\ \A k \in 1..Len(tcs) :
                     IsAnswerTo(memory'[thread].messages[Len(msgs) + k], tcs[k])]_vars
    /\ [][ModelInvoked => Last(memory[thread].messages).tool_calls = <<>>]_vars

\* C18 as stated: every tool call a response carries is dispatched exactly once, and
\* its answer is appended, telling its call, before the next invocation of a backend.
C18_EveryCallDispatched ==
    /\ DispatchedOnce
    /\ [][LeavesAgent /\ cmReturn.tool_calls # <<>> => loopPc' = "tools"]_vars

\* C18, amended: every tool call of a response from which the loop enters the tools
\* node is dispatched exactly once by that node, and its answer is appended, telling
\* its call, before the next invocation of a backend; the calls of a response on
\* which the ceiling forces END are not dispatched at all.
C18_CallsDispatchedWhenToolsEntered ==
    /\ DispatchedOnce
    /\ [][LeavesAgent /\ cmReturn.tool_calls # <<>> =>
             \/ loopPc' = "tools"
             \/ /\ loopPc' = "END" /\ toolRuns' = toolRuns
                /\ Last(memory'[thread].messages) = cmReturn
                /\ CountToolCallBearing(memory'[thread].messages) > ToolCallCeiling]_vars

\* C18 witness: the tools node has run the two calls of a response, their answers
\* are the last messages of the state, and a backend is being invoked on them
C18_Witness ==
    /\ loopPc = "agent" /\ attempts # <<>>
    /\ toolRuns = RequestedTools
    /\ Len(ThisRun) = 1 + Len(RequestedTools)
    /\ ThisRun[1].tool_calls = RequestedTools
    /\ \A k \in 1..Len(RequestedTools) : IsAnswerTo(ThisRun[1 + k], RequestedTools[k])

\* the content of the last message of the state the run ended in: what the
\* synchronous endpoint answers with for the same run
FinalAnswer == get_text_content(Last(memory[thread].messages).content)

\* C19: once a streaming turn has sent end, the full_content of end is the content
\* of the last message of the run's final state, and so is the assistant message
\* the turn persisted; text streamed by earlier responses of the turn, which went
\* on to the tools node, is no part of either.
C19_EndIsFinalAnswer ==
    Sent("end") # {} =>
        /\ \A j \in Sent("end") : trace[j].content = FinalAnswer
        /\ Written("save_assistant") # {} =>
              Last(db_msgs[conversation_id]) = [role |-> "assistant", content |-> FinalAnswer]

IsStatus(e) == e.k = "send" /\ e.type = "status"
StatusSends == SelectSeq(trace, IsStatus)
StatusOf(tool) == [k |-> "send", type |-> "status",
                   content |-> <<"Running tool: " \o tool>>, ok |-> TRUE]

\* C20: in a streaming turn the status events sent are, one for one and in order,
\* the tools the run has invoked, each naming its tool; they are sent in the very
\* step in which the tools node starts those tools, hence before any token of the
\* backend invocation that reads their results, and in no other step.
C20_OneStatusPerToolStart ==
    /\ [](Sent("start") # {} =>
            /\ Len(StatusSends) = Len(toolRuns)
            /\ \A k \in 1..Len(toolRuns) : StatusSends[k] = StatusOf(toolRuns[k]))
    /\ [][runner = "ws" /\ ToolsRan =>
            LET tcs == Last(memory[thread].messages).tool_calls IN
            trace' = trace \o [k \in 1..Len(tcs) |-> StatusOf(tcs[k])]]_vars
    /\ [][~ToolsRan /\ IsPrefix(trace, trace') =>
            \A i \in (Len(trace) + 1)..Len(trace') : ~IsStatus(trace'[i])]_vars

\* C20 witness: a turn whose run invoked the two tools once: two status events,
\* naming them in order, then a token of the response that read the results, then
\* end
C20_Witness ==
    /\ Sent("end") # {}
    /\ toolRuns = RequestedTools
    /\ \E i, j \in Sent("status"), t \in Sent("token") :
          /\ i < j /\ j < t
          /\ trace[i] = StatusOf("legal_assistant")
          /\ trace[j] = StatusOf("web_search")
          /\ \A u \in Sent("token") : u > j

\* the rows the conversation of the run held when its history was fetched: the
\* streaming endpoint has inserted the user message since
RowsAtFetch ==
    IF runner = "ws" /\ Written("save_user") # {}
    THEN AllButLast(db_msgs[thread]) ELSE db_msgs[thread]
Newest(rows, k) ==
    SubSeq(rows, (IF Len(rows) > k THEN Len(rows) - k ELSE 0) + 1, Len(rows))
AtLoopEntry == loopPc = "agent" /\ attempts = <<>> /\ cmReturn = NoReturn
NewUserMessage == IF runner = "ws" THEN data ELSE request.message

\* C21: at loop entry on an existing conversation whose history was fetched, the
\* messages handed to the graph are the HistoryLimit most recent rows of the
\* conversation, in insertion order, followed by the new user message.
C21_HistoryIsMostRecent ==
    (AtLoopEntry /\ thread # None /\ Len(memory[thread].messages) > 1) =>
        memory[thread].messages =
            ToMessages(Append(Newest(RowsAtFetch, HistoryLimit),
                              [role |-> "user", content |-> NewUserMessage]))

\* the run in flight was started for a conversation that had no identity when the
\* request came: a POST /chat without conversation_id, or the turn of a session
\* that has just created its conversation
ForNewConversation ==
    \/ runner = "sync" /\ request.conversation_id = None
    \/ runner = "ws" /\ Sent("meta") # {}

\* C22: a run started for a brand-new conversation reads nothing another
\* conversation's run has written: at loop entry the state of its thread holds its
\* own new user message and nothing else.
C22_NewConversationStartsFresh ==
    (AtLoopEntry /\ ForNewConversation) =>
        memory[thread] = [messages    |-> <<HumanMessage(NewUserMessage)>>,
                          summary     |-> <<>>,
                          pdf_context |-> <<>>]

\* the conversation a request names is on record and is not the caller's
NotOwned(cid) == cid # None /\ conversations[cid] \notin {"none", "alice"}

\* C23: a POST /chat whose conversation_id belongs to someone else (the database
\* being there to tell) is answered 403; the graph is not run on the thread of that
\* conversation and no row is added to it.
C23_ForeignConversationRejected ==
    /\ [](syncPc = "invoke" /\ supabase /\ NotOwned(request.conversation_id) => runner # "sync")
    /\ [][(syncPc' = "idle" /\ syncPc = "invoke" /\ supabase
             /\ NotOwned(request.conversation_id))
          => /\ syncResponse'.status = 403
             /\ db_msgs' = db_msgs]_vars

\* the session has no authenticated user, or asks for a conversation that is not
\* the user's
Rejectable ==
    /\ wsPc # "init"
    /\ \/ user = "none"
       \/ conversation_id # None /\ conversations[conversation_id] # user

\* no start event, no run of the graph, no row written
NothingDone ==
    /\ Sent("start") = {}
    /\ loopPc = "idle" /\ \A t \in ThreadIds : memory[t] = FreshState
    /\ db_msgs = [c \in ConvIds |-> IF c \in Preexisting THEN InitMsgs ELSE <<>>]
    /\ \A c \in ConvIds \ Preexisting : conversations[c] = "none"

ErrorEvent(text) == [k |-> "send", type |-> "error", content |-> <<text>>, ok |-> TRUE]

\* C24 as stated: every session without a valid token, or for a conversation that
\* is not the user's, gets exactly one error event and is closed, and nothing is
\* started, run or persisted for it.
C24_RejectedSessionAlwaysGetsError ==
    Rejectable =>
        /\ wsPc \in {"owner", "closed"}
        /\ NothingDone
        /\ wsPc = "closed" => Cardinality(Sent("error")) = 1 /\ Len(trace) = 1

\* C24, amended: such a session never gets past the ownership check, and nothing
\* is started, run or persisted for it; it is closed with exactly one error event
\* when the token is refused or the ownership lookup answers that the conversation
\* is not the user's, and without any event when the lookup itself fails (no
\* database client, or the query raises).
C24_RejectedSessionClosed ==
    Rejectable =>
        /\ wsPc \in {"owner", "closed"}
        /\ NothingDone
        /\ wsPc = "closed" =>
              /\ ~active
              /\ closeReason \in {"unauthorized", "access_denied", "owner_check_failed"}
              /\ closeReason = "unauthorized" => trace = <<ErrorEvent("Unauthorized")>>
              /\ closeReason = "access_denied" =>
                    trace = <<ErrorEvent("Access denied to conversation")>>
              /\ closeReason = "owner_check_failed" => trace = <<>>

\* C24 witness: alice asked for the conversation of bob, the lookup answered, and
\* the session was closed with the one error event
C24_Witness ==
    /\ wsPc = "closed" /\ closeReason = "access_denied"
    /\ user = "alice" /\ conversation_id = 2
    /\ trace = <<ErrorEvent("Access denied to conversation")>>
    /\ NothingDone

LoopEntered == loopPc = "idle" /\ loopPc' = "agent"
\* the turns a thread has seen so far were completed: its checkpoint ends with the
\* answer of the last one
EndsWithAnswer(msgs) ==
    msgs # <<>> /\ Last(msgs).type = "ai" /\ Last(msgs).tool_calls = <<>>

\* C25: when a later turn enters the loop on a thread whose earlier turns were
\* completed, seeding it with the persisted history repeats no utterance the
\* checkpoint already holds (every utterance of a behaviour has a text of its
\* own), so the checkpoint goes on holding each utterance once.
C25_CheckpointHoldsEachTurnOnce ==
    [][(LoopEntered /\ EndsWithAnswer(memory[thread'].messages)) =>
          LET old == memory[thread'].messages
              new == memory'[thread'].messages
          IN \A i \in 1..Len(old), j \in (Len(old) + 1)..Len(new) :
                (old[i].type = "human" /\ new[j].type = "human")
                   => old[i].content # new[j].content]_vars

InLoop == loopPc \in {"agent", "tools"}
Uploaded == Len(uploadLog') = Len(uploadLog) + 1

\* C26: summary is never changed; pdf_context is changed by an upload only, never
\* by a step of the graph; a step of call_model that has not returned changes
\* nothing of the checkpoint, the step that leaves the agent node appends the one
\* message returned to the messages of its thread and touches no other thread, and
\* the tools node changes the messages of its thread only.
C26_LoopLeavesSummaryAndPdfContext ==
    [][/\ \A t \in ThreadIds : memory'[t].summary = memory[t].summary
       /\ (\E t \in ThreadIds : memory'[t].pdf_context # memory[t].pdf_context)
             => (Uploaded /\ ~InLoop)
       /\ InLoop => \A t \in ThreadIds : memory'[t].pdf_context = memory[t].pdf_context
       /\ (InLoop /\ ~LeavesAgent /\ ~ToolsRan) => memory' = memory
       /\ LeavesAgent =>
             memory' = [memory EXCEPT ![thread].messages = Append(@, cmReturn)]
       /\ ToolsRan => \A t \in ThreadIds \ {thread} : memory'[t] = memory[t]]_vars

\* C26 witness: a document was uploaded to the conversation, then a run on its
\* thread went through the tools node and ended, the context being what the upload
\* left
C26_Witness ==
    /\ loopPc = "END" /\ toolRuns # <<>>
    /\ memory[thread].pdf_context = UpdatedContext(<<>>, "a.pdf")
    /\ memory[thread].summary = <<>>

\* ------------------------------------------------------ shared resources
\* thread t left its call empty-handed: the accessor raised or returned None
EndsEmpty(t) ==
    /\ tgot'[t] # tgot[t]
    /\ tgot'[t].state \in {"returned", "raised"}
    /\ tgot'[t].value = None

\* C27: under concurrent first use each shared resource is constructed successfully
\* at most once, the callers that obtain a non-null resource all obtain the same
\* instance, and a call whose construction failed or was skipped leaves the
\* attribute unset and its locks free, so that a later call tries again.
C27_ConstructedAtMostOnce ==
    /\ [](\A a \in Attributes : built[a] <= 1)
    /\ [](\A t, u \in Threads :
            (/\ tgot[t].state = "returned" /\ tgot[u].state = "returned"
             /\ tgot[t].attr = tgot[u].attr
             /\ tgot[t].value # None /\ tgot[u].value # None)
            => tgot[t].value = tgot[u].value)
    /\ [][\A t \in Threads :
            EndsEmpty(t) => /\ fields'[tgot'[t].attr] = None
                            /\ \A l \in Locks : lock'[l] # t]_vars

\* one thread has obtained the instance while another, which saw the attribute unset
\* before it waited for the lock, now holds the lock and finds the attribute set
C27_Witness ==
    \E t, u \in Threads :
        /\ t # u
        /\ tpos[u] = "recheck"
        /\ fields[AttrOf(tcall[u])] # None
        /\ tgot[t] = CallReturned(AttrOf(tcall[u]), fields[AttrOf(tcall[u])])

\* thread t is inside the first-use initialization of attribute a: past the `with`
\* of a's accessor and not yet out of it
Inside(t, a) ==
    IF a = "_pinecone_client" THEN tpos[t] \in {"pc_recheck", "pc_build"}
    ELSE IF a = "_pinecone_index"
    THEN tcall[t] = "get_index"
         /\ tpos[t] \in {"recheck", "pc_check", "pc_acquire", "pc_recheck", "pc_build",
                         "pc_return", "connect"}
    ELSE AttrOf(tcall[t]) = a /\ tpos[t] \in {"recheck", "build"}

\* thread u found attribute b unset and stands at the `with` of b's accessor
Entering(u, b) ==
    \/ tpos[u] = "acquire" /\ AttrOf(tcall[u]) = b
    \/ tpos[u] = "pc_acquire" /\ b = "_pinecone_client"

\* u cannot go on because t holds the lock u needs
BlockedBy(u, b, t) == Entering(u, b) /\ lock[LockOf(b)] = t

RewriteFailed == toolEnv.optimizer \in {"none", "timeout", "raises"}

\* the call went past the knowledge base
ReachedVectorSearch == toolPc = "done" /\ FirstMatch(Normalize(query)) = NoKey

\* C29: when the query rewrite times out, throws or has no fast model, the text
\* handed to the vector search is the user's query unchanged, and with the
\* embedding model, the index and the search all working the tool returns the
\* search results, without the fallback marker and without an error text.
C29_RewriteFailureKeepsQuery ==
    (ReachedVectorSearch /\ RewriteFailed) =>
        /\ Called("embed_query") => toolOut.search_query = query
        /\ (/\ toolEnv.embeddings = "ok" /\ toolEnv.index = "connected"
            /\ toolEnv.search = "matches")
           => /\ Called("index.query")
              /\ toolOut.text = ResultsText
              /\ ~HasMarker

\* a question outside the knowledge base, the optimizer timed out, the search found
\* matches
C29_Witness ==
    /\ ReachedVectorSearch
    /\ query # <<>>
    /\ toolEnv.optimizer = "timeout"
    /\ toolEnv.embeddings = "ok" /\ toolEnv.index = "connected"
    /\ toolEnv.search = "matches"
    /\ toolOut.search_query = query
    /\ toolOut.text = ResultsText

\* ------------------------------------------------------ uploads that overlap
\* the text of file f is in the checkpointed pdf_context of conversation c
HoldsTextOf(c, f) ==
    \E i \in 1..Len(memory[c].pdf_context) : memory[c].pdf_context[i] = ExtractedText(f)

\* C30: when uploads to one conversation overlap, the pdf_context that is left once
\* they are all answered contains the text of every document that was uploaded with
\* success: no upload's write discards another's.
C30_OverlappingUploadsBothKept ==
    NoUploadInFlight =>
        \A i \in 1..Len(uploadLog) :
            uploadLog[i].status = 200
            => HoldsTextOf(uploadLog[i].conversation_id, uploadLog[i].filename)

====
